---- MODULE Spec2Model ----
(***************************************************************************)
(* A model of the chat server (src/src/server.py), the reliable client     *)
(* (src/src/client.py) and the derived ACK/NACK constructors of the        *)
(* protocol (src/src/protocol.py).                                         *)
(*                                                                         *)
(* Two specifications share the server model:                              *)
(*   Spec        the server with its accept thread and one handler thread  *)
(*               per session; the peers are an environment that may send   *)
(*               any frame or close its end of the connection;             *)
(*   SpecClient  one ReliableClient (caller thread and receive thread)     *)
(*               talking to the handler thread of its own session over a   *)
(*               transport that may silently drop frames, while another    *)
(*               session is already registered.                            *)
(*                                                                         *)
(* A frame is a record                                                     *)
(*   type  the MessageType name                                            *)
(*   seq   sequence_num                                                    *)
(*   src   provenance (not on the wire): the session on whose connection   *)
(*         the frame, or the frame it answers, arrived; 0 for a notice     *)
(*         the server authors                                              *)
(*   name  payload: username (CONNECT, join/leave notice), recipient       *)
(*         (PRIVATE_MSG), the user an ERROR names                          *)
(*   text  payload: status, reason, or the kind of notice                  *)
(*   ref   payload: ack_for / nack_for, -1 when the payload has neither    *)
(***************************************************************************)
EXTENDS Integers, Sequences, FiniteSets, TLC

\* ------------------------------------------------------------------ bounds
MaxSessions == 2          \* sessions the accept loop creates
MaxFrames == 3            \* frames sent and connections closed by the peers in all (Spec)
MaxOps == 1               \* operations the caller makes after connect (SpecClient)
MaxLate == 0              \* timeouts per call that fire before the reply could arrive (SpecClient)
MaxEntries == 2           \* entries of a payload map handed to the codec (SpecCodec)
MaxTicks == 4             \* scan intervals the clock runs through (SpecLive)
MaxThreads == 3           \* threads of one endpoint that call get_next_sequence (SpecSeq)
MaxCallers == 2           \* threads that call the send operations of one client (SpecCallers)
MaxPush == 1              \* frames the server relays to the client (SpecCallers)
MaxCalls == 2             \* calls of get_next_sequence each thread makes (SpecSeq)

\* ------------------------------------------------------- program constants
MAX_RETRIES == 3
SCAN_INTERVAL == 30        \* _heartbeat_loop: time.sleep(30)
HEARTBEAT_TIMEOUT == 90    \* _heartbeat_loop: the silence after which a session is flagged

\* --------------------------------------------------------------- constants
Names == {"alice", "bob"}
NoName == ""
NoSession == 0
Sessions == 1..MaxSessions

Threads == 1..MaxThreads

MaxLockThreads == 2       \* threads that run code paths over the locks (SpecLockPaths)
MaxRuns == 2              \* code paths each of these threads runs (SpecLockPaths)
LockThreads == 1..MaxLockThreads

\* The locks: the server's registry lock and sequence lock, one lock per session,
\* the client's sequence lock and ack lock.
ClientsLock == <<"clients_lock", 0>>
SeqLock == <<"seq_lock", 0>>
SessionLock(c) == <<"lock", c>>
CliSeqLock == <<"cli_seq_lock", 0>>
AckLock == <<"ack_lock", 0>>
Locks == {ClientsLock, SeqLock, CliSeqLock, AckLock} \cup {SessionLock(c) : c \in Sessions}

Callers == 1..MaxCallers
NoThread == 0

AckTypes == {"CONNECT_ACK", "CHAT_ACK", "BROADCAST_ACK", "PRIVATE_ACK", "HEARTBEAT_ACK"}

VARIABLES
  \* ChatServer
  clients,             \* keys of self.clients (client_id -> ClientConnection)
  next_client_id,
  username_to_client,  \* [Names -> Sessions \cup {NoSession}]
  srv_sequence_num,
  running,
  \* ClientConnection, per session
  username, connected, sockOpen,
  peerClosed,          \* the peer closed its end of this connection
  sent,                \* frames written to the session's transport, in order
  \* the handler thread of a session (_handle_client)
  hpc, hmsg, hout, hlist, hafter, hrcpt,
  \* history
  mark,                \* Len(sent[c]) when c's handler took its current frame
  quiet,               \* no session registered or left since c's handler took its frame
  peer_seq,            \* the next sequence number of the peer of each session (Spec)
  nframes              \* frames the environment sent (Spec)

svars == <<clients, next_client_id, username_to_client, srv_sequence_num, running,
           username, connected, sockOpen, peerClosed, sent,
           hpc, hmsg, hout, hlist, hafter, hrcpt, mark, quiet, peer_seq, nframes>>

VARIABLES
  \* ReliableClient
  cli_sock,            \* self.socket: "none", "open" or "closed"
  cli_username,
  cli_sequence_num,
  pending_acks,        \* keys of self.pending_acks
  cli_connected,
  cli_running,
  \* the caller's thread: where it is, the operation it is in (or was in last),
  \* the message, retry counter and return value of _send_reliable
  cpc, cop, cmsg, retries, cret,
  rpc,                 \* the receive thread (_receive_loop)
  \* the transport between the client and its session
  c2s,                 \* frames on their way to the server
  \* history
  nops,
  txCount,             \* transmissions of cmsg handed to the transport
  dropCount,           \* of which the transport dropped
  replyLost,           \* the transport dropped a frame to the client during the call
  late,                \* timeouts of the call that fired with a frame or its handling under way
  sendErr,             \* _send_message failed during the call
  ackSeen,             \* an ACK for cmsg was handled during the call
  nackSeen,            \* a NACK for cmsg was handled during the call
  nackHit,             \* a NACK removed the entry of cmsg while the caller waited
  txAtNack,            \* txCount at that moment
  processed            \* frames the server's handler took from the client

cvars == <<cli_sock, cli_username, cli_sequence_num, pending_acks, cli_connected,
           cli_running, cpc, cop, cmsg, retries, cret, rpc, c2s, nops,
           txCount, dropCount, replyLost, late, sendErr, ackSeen, nackSeen, nackHit, txAtNack,
           processed>>

VARIABLES
  \* get_next_sequence called by several threads of one endpoint (SpecSeq)
  sequence_num,        \* self.sequence_num
  seq_lock,            \* the thread that holds self.seq_lock, or NoThread
  tpc,                 \* where each thread is in get_next_sequence
  tseq,                \* each thread's local seq
  ttmp,                \* the value a thread loaded for the += 1
  handed               \* per thread, the values its calls returned, in order

gvars == <<sequence_num, seq_lock, tpc, tseq, ttmp, handed>>

VARIABLES
  \* one message taken through the codec (SpecCodec)
  kmsg,                \* the message constructed by the sender
  kclock,              \* the clock, in milliseconds
  kpc,                 \* "new", "encoded", "decoded" or "replied"
  kdata,               \* the bytes handed to deserialize
  kfault,              \* what happened to the bytes on the way
  kout,                \* what deserialize returned
  kreply,              \* what create_ack or create_nack returned
  kreason              \* the reason handed to create_nack

kvars == <<kmsg, kclock, kpc, kdata, kfault, kout, kreply, kreason>>

VARIABLES
  \* history of the server's registrations
  regAtJoin            \* per session, the other sessions that were registered when
                       \* _broadcast_message took the snapshot for its last join notice

jvars == <<regAtJoin>>

VARIABLES
  \* the clock and the heartbeat thread (_heartbeat_loop)
  time_now,            \* time.time(), in seconds
  last_heartbeat,      \* ClientConnection.last_heartbeat, per session
  mpc,                 \* the heartbeat thread: "sleep" or "scan"
  mlist,               \* the sessions of its snapshot it has not looked at yet
  mtime,               \* its current_time
  scannedAt,           \* the clock value of its last snapshot
  expired              \* history: the sessions the heartbeat thread has flagged

mrest == <<time_now, mpc, mlist, mtime, scannedAt, expired>>

mvars == <<last_heartbeat, mrest>>

VARIABLES
  \* several threads calling the send operations of one connected client
  \* (SpecCallers)
  callpc,              \* per caller, where it is in _send_reliable
  callmsg,             \* its message
  callretries,         \* its retries
  callret,             \* what its last call returned: "none", "True" or "False"
  ncalls,              \* the calls it has made
  wire,                \* what send() has put on the client's socket and the server has
                       \* not read yet, in order
  inbox,               \* frames on their way to the client
  recvpc,              \* the receive thread: "recv", or "write" inside sendall
  recvmsg,             \* the ACK it is writing
  npushed,             \* frames the server has relayed to the client
  ackCase              \* history: what the last ACK or NACK handled found in pending_acks:
                       \* "none" yet, its entry "alone", its entry "among" others, or
                       \* its entry "absent"

pvars == <<callpc, callmsg, callretries, callret, ncalls, wire, inbox, recvpc, recvmsg,
           npushed, ackCase>>

VARIABLES
  \* the registry lock (SpecLocks)
  clients_lock         \* the session whose handler thread holds self.clients_lock, or
                       \* NoSession

lvars == <<clients_lock>>

VARIABLES
  \* the locks of both programs, one thread at a time (SpecLockPaths)
  todo,                \* per thread: the lock and socket operations left of the code
                       \* path it runs, <<>> when it runs none
  holder,              \* per lock: the thread inside its "with" block, or NoThread
  nruns                \* per thread: code paths started so far

dvars == <<todo, holder, nruns>>

ovars == <<pvars, lvars, dvars>>

avars == <<gvars, kvars, jvars, mvars, ovars>>

vars == <<svars, cvars, avars>>

\* The session the server's accept loop gives the client in SpecClient.
CliSess == 2

NoMsg == [type |-> "NONE", seq |-> 0, src |-> 0, name |-> "", text |-> "", ref |-> -1]

\* A complete frame whose bytes deserialize rejects (version, checksum or
\* payload encoding): what the handler last read when _receive_message
\* returned None for it.
Garbled == [type |-> "UNDECODABLE", seq |-> 0, src |-> 0, name |-> "", text |-> "", ref |-> -1]

Msg(t, s, c, n, x, r) == [type |-> t, seq |-> s, src |-> c, name |-> n, text |-> x, ref |-> r]

\* ------------------------------------------------------------ protocol.py
ack_type_map(t) ==
  CASE t = "CONNECT" -> "CONNECT_ACK"
    [] t = "CHAT_MSG" -> "CHAT_ACK"
    [] t = "BROADCAST" -> "BROADCAST_ACK"
    [] t = "PRIVATE_MSG" -> "PRIVATE_ACK"
    [] t = "HEARTBEAT" -> "HEARTBEAT_ACK"
    [] OTHER -> "CHAT_ACK"

create_ack(m) == Msg(ack_type_map(m.type), m.seq, m.src, "", "success", m.seq)

create_nack(m, reason) == Msg("NACK", m.seq, m.src, "", reason, m.seq)

connect_message(u, s, c) == Msg("CONNECT", s, c, u, "connect", -1)
disconnect_message(u, s, c) == Msg("DISCONNECT", s, c, u, "disconnect", -1)
chat_message(u, s, c) == Msg("CHAT_MSG", s, c, "", "", -1)
broadcast_message(u, s, c) == Msg("BROADCAST", s, c, "", "", -1)
private_message(u, r, s, c) == Msg("PRIVATE_MSG", s, c, r, "", -1)
heartbeat_message(s, c) == Msg("HEARTBEAT", s, c, "", "heartbeat", -1)
error_message(r, s, c) == Msg("ERROR", s, c, r, "not found or offline", -1)
\* MessageBuilder.broadcast_message('SERVER', '<u> has joined|left the chat', seq)
notice_message(u, kind, s) == Msg("BROADCAST", s, 0, u, kind, -1)

\* ---------------------------------------------------------------- helpers
RECURSIVE SetToSeq(_)
\* The values of self.clients in dict order: insertion order, which is the
\* order of the monotonically assigned client ids.
SetToSeq(S) ==
  IF S = {} THEN <<>>
  ELSE LET x == CHOOSE y \in S : \A z \in S : y <= z
       IN <<x>> \o SetToSeq(S \ {x})

Count(q, m) == Cardinality({i \in 1..Len(q) : q[i] = m})

\* ------------------------------------------------- ClientConnection (server)
\* What sendall can do on session c's transport: it raises once the server has
\* closed the socket, it may raise or be accepted by the kernel once the peer
\* has closed its end, and it succeeds otherwise.
SendOutcomes(c) ==
  IF ~sockOpen[c] THEN {FALSE}
  ELSE IF peerClosed[c] THEN {TRUE, FALSE}
  ELSE {TRUE}

\* ClientConnection.send_message: the frame is written, or the exception is
\* caught and the session is marked not connected.
send_message(c, m, ok) ==
  /\ sent' = IF ok THEN [sent EXCEPT ![c] = Append(@, m)] ELSE sent
  /\ connected' = IF ok THEN connected ELSE [connected EXCEPT ![c] = FALSE]

\* ClientConnection.close
close(c) ==
  /\ sockOpen' = [sockOpen EXCEPT ![c] = FALSE]
  /\ connected' = [connected EXCEPT ![c] = FALSE]

\* -------------------------------------------------------------- ChatServer
\* The list without the test of the name.
clients_to_send_unnamed(excl) ==
  SelectSeq(SetToSeq(clients), LAMBDA x : connected[x] /\ x # excl)

\* clients_to_send of _broadcast_message, computed under clients_lock.
clients_to_send(excl) ==
  SelectSeq(SetToSeq(clients),
            LAMBDA x : connected[x] /\ x # excl /\ username[x] # NoName)

\* Session x is in self.clients, has a name and its connected flag is set:
\* the sessions _broadcast_message selects.
Registered(x) == x \in clients /\ connected[x] /\ username[x] # NoName

\* The username index and the registered sessions with their names.
View ==
  <<username_to_client,
    [x \in Sessions |-> IF Registered(x) THEN username[x] ELSE NoName]>>

\* History: quiet[c] is set when handler r takes a frame and cleared for every
\* session by a step that changes View.
watch(r) ==
  quiet' = [c \in Sessions |-> (c = r \/ quiet[c]) /\ View' = View]

\* The accept loop giving every connection the same id.
Accept_same_id ==
  /\ running
  /\ next_client_id <= MaxSessions
  /\ clients' = clients \cup {next_client_id}
  /\ hpc' = [hpc EXCEPT ![next_client_id] = "recv"]
  /\ last_heartbeat' = [last_heartbeat EXCEPT ![next_client_id] = time_now]
  /\ UNCHANGED <<next_client_id, username_to_client, srv_sequence_num, running, username,
                 connected, sockOpen, peerClosed, sent, hmsg, hout, hlist, hafter, hrcpt,
                 mark, quiet, peer_seq, nframes, cvars, gvars, kvars, jvars, mrest, ovars>>

\* The accept loop of start(): a new ClientConnection enters self.clients under
\* clients_lock and its handler thread is started.
Accept ==
  /\ running
  /\ next_client_id <= MaxSessions
  /\ clients' = clients \cup {next_client_id}
  /\ hpc' = [hpc EXCEPT ![next_client_id] = "recv"]
  /\ next_client_id' = next_client_id + 1
  /\ last_heartbeat' = [last_heartbeat EXCEPT ![next_client_id] = time_now]
  /\ UNCHANGED <<username_to_client, srv_sequence_num, running, username, connected,
                 sockOpen, peerClosed, sent, hmsg, hout, hlist, hafter, hrcpt,
                 mark, quiet, peer_seq, nframes, cvars, gvars, kvars, jvars, mrest, ovars>>

\* _handle_client: the test of the while loop, made when a handler returns,
\* with conn the connected flags the handler leaves: the thread blocks in
\* _receive_message again or leaves the loop for _disconnect_client.
loop(c, conn) == IF conn[c] /\ running THEN "recv" ELSE "disc"

\* The registration without the test of the index.
_handle_connect_unchecked(c, m) ==
  /\ username' = [username EXCEPT ![c] = m.name]
  /\ username_to_client' = [username_to_client EXCEPT ![m.name] = c]
  /\ hpc' = [hpc EXCEPT ![c] = "conn_ack"]
  /\ UNCHANGED <<sent, connected>>

\* The registration that ends the session it rejects.
_handle_connect_closing(c, m) ==
  IF username_to_client[m.name] # NoSession
  THEN /\ \E ok \in SendOutcomes(c) :
            sent' = IF ok THEN [sent EXCEPT ![c] =
                                  Append(@, create_nack(m, "Username already taken"))]
                    ELSE sent
       /\ connected' = [connected EXCEPT ![c] = FALSE]
       /\ hpc' = [hpc EXCEPT ![c] = "disc"]
       /\ UNCHANGED <<username, username_to_client>>
  ELSE /\ username' = [username EXCEPT ![c] = m.name]
       /\ username_to_client' = [username_to_client EXCEPT ![m.name] = c]
       /\ hpc' = [hpc EXCEPT ![c] = "conn_ack"]
       /\ UNCHANGED <<sent, connected>>

\* _handle_connect up to the release of clients_lock: the NACK is sent inside
\* the critical section, the binding is made inside it.
_handle_connect(c, m) ==
  IF username_to_client[m.name] # NoSession
  THEN /\ \E ok \in SendOutcomes(c) : send_message(c, create_nack(m, "Username already taken"), ok)
       /\ hpc' = [hpc EXCEPT ![c] = loop(c, connected')]
       /\ UNCHANGED <<username, username_to_client>>
  ELSE /\ username' = [username EXCEPT ![c] = m.name]
       /\ username_to_client' = [username_to_client EXCEPT ![m.name] = c]
       /\ hpc' = [hpc EXCEPT ![c] = "conn_ack"]
       /\ UNCHANGED <<sent, connected>>

\* _handle_disconnect
_handle_disconnect(c, m) ==
  /\ \E ok \in SendOutcomes(c) :
        sent' = IF ok THEN [sent EXCEPT ![c] = Append(@, create_ack(m))] ELSE sent
  /\ connected' = [connected EXCEPT ![c] = FALSE]
  /\ hpc' = [hpc EXCEPT ![c] = loop(c, connected')]
  /\ UNCHANGED <<username, username_to_client>>

\* The ACK to the sender that opens _handle_chat_message, _handle_broadcast,
\* _handle_private_message and _handle_heartbeat; next is where the handler
\* goes on.
ack_sender(c, m, next) ==
  /\ \E ok \in SendOutcomes(c) : send_message(c, create_ack(m), ok)
  /\ hpc' = [hpc EXCEPT ![c] = IF next = "loop" THEN loop(c, connected') ELSE next]
  /\ UNCHANGED <<username, username_to_client>>

\* _handle_ack (the session's pending_acks is never filled by the server, so
\* there is nothing to delete) and the final else of _process_message.
no_reply(c) ==
  /\ hpc' = [hpc EXCEPT ![c] = loop(c, connected)]
  /\ UNCHANGED <<sent, connected, username, username_to_client>>

\* _process_message: the dispatch on the type, with the first step of the
\* handler it selects.
_process_message(c, m) ==
  CASE m.type = "CONNECT" -> _handle_connect(c, m)
    [] m.type = "DISCONNECT" -> _handle_disconnect(c, m)
    [] m.type = "CHAT_MSG" -> ack_sender(c, m, "snap_msg")
    [] m.type = "BROADCAST" -> ack_sender(c, m, "snap_msg")
    [] m.type = "PRIVATE_MSG" -> ack_sender(c, m, "priv_lookup")
    [] m.type = "HEARTBEAT" -> ack_sender(c, m, "loop")
    [] OTHER -> no_reply(c)

\* The handler that does not note the time of the frame.
Receive_untimed(c, m) ==
  /\ hpc[c] = "recv"
  /\ sockOpen[c]
  /\ hmsg' = [hmsg EXCEPT ![c] = m]
  /\ mark' = [mark EXCEPT ![c] = Len(sent[c])]
  /\ UNCHANGED last_heartbeat
  /\ _process_message(c, m)
  /\ UNCHANGED <<clients, next_client_id, srv_sequence_num, running, sockOpen,
                 peerClosed, hout, hlist, hafter, hrcpt>>
  /\ watch(c)

\* _handle_client: _receive_message returns frame m, which is dispatched.
\* Taking the frame touches only the handler's own state, so it is one step
\* with the first step of the handler.
Receive(c, m) ==
  /\ hpc[c] = "recv"
  /\ sockOpen[c]
  /\ hmsg' = [hmsg EXCEPT ![c] = m]
  /\ mark' = [mark EXCEPT ![c] = Len(sent[c])]
  /\ last_heartbeat' = [last_heartbeat EXCEPT ![c] = time_now]
  /\ _process_message(c, m)
  /\ UNCHANGED <<clients, next_client_id, srv_sequence_num, running, sockOpen,
                 peerClosed, hout, hlist, hafter, hrcpt>>
  /\ watch(c)

\* _handle_client: _receive_message returns None (end of stream, or the
\* socket was closed under the reader) and the loop is left.
ReadFail(c) ==
  /\ hpc[c] = "recv"
  /\ peerClosed[c] \/ ~sockOpen[c]
  /\ hpc' = [hpc EXCEPT ![c] = "disc"]
  /\ UNCHANGED <<clients, next_client_id, username_to_client, srv_sequence_num,
                 running, username, connected, sockOpen, peerClosed, sent,
                 hmsg, hout, hlist, hafter, hrcpt, mark, quiet, peer_seq>>

\* _handle_connect after the critical section: the ACK.
ConnAck(c) ==
  /\ hpc[c] = "conn_ack"
  /\ \E ok \in SendOutcomes(c) : send_message(c, create_ack(hmsg[c]), ok)
  /\ hpc' = [hpc EXCEPT ![c] = "snap_join"]
  /\ UNCHANGED <<clients, next_client_id, username_to_client, srv_sequence_num,
                 running, username, sockOpen, peerClosed,
                 hmsg, hout, hlist, hafter, hrcpt, mark, peer_seq, nframes, cvars, avars>>
  /\ watch(NoSession)

\* The start of a fan-out by handler c: message m goes to the sessions of
\* list, and the handler goes on at after when the list is done.
start_fan(c, m, list, after) ==
  /\ hout' = [hout EXCEPT ![c] = m]
  /\ hlist' = [hlist EXCEPT ![c] = list]
  /\ hafter' = [hafter EXCEPT ![c] = after]
  /\ hpc' = [hpc EXCEPT ![c] = IF list # <<>> THEN "fan"
                                ELSE IF after = "loop" THEN loop(c, connected)
                                ELSE after]

\* The join notice sent to the joining session as well.
SnapJoin_nobody_excluded(c) ==
  /\ hpc[c] = "snap_join"
  /\ srv_sequence_num' = srv_sequence_num + 1
  /\ start_fan(c, notice_message(hmsg[c].name, "joined", srv_sequence_num),
               clients_to_send(NoSession), "loop")
  /\ regAtJoin' = [regAtJoin EXCEPT ![c] = {x \in Sessions \ {c} : Registered(x)}]
  /\ UNCHANGED <<clients, next_client_id, username_to_client, running, username,
                 connected, sockOpen, peerClosed, sent, hmsg, hrcpt, mark, quiet, peer_seq,
                 nframes, cvars, gvars, kvars, mvars, ovars>>

\* _handle_connect: the join notice takes the next server sequence number
\* and _broadcast_message(join_msg, exclude_client=client) takes its snapshot.
SnapJoin(c) ==
  /\ hpc[c] = "snap_join"
  /\ srv_sequence_num' = srv_sequence_num + 1
  /\ start_fan(c, notice_message(hmsg[c].name, "joined", srv_sequence_num),
               clients_to_send(c), "loop")
  /\ regAtJoin' = [regAtJoin EXCEPT ![c] = {x \in Sessions \ {c} : Registered(x)}]
  /\ UNCHANGED <<clients, next_client_id, username_to_client, running, username,
                 connected, sockOpen, peerClosed, sent, hmsg, hrcpt, mark, quiet, peer_seq,
                 nframes, cvars, gvars, kvars, mvars, ovars>>

\* The snapshot that leaves nobody out.
SnapMsg_nobody_excluded(c) ==
  /\ hpc[c] = "snap_msg"
  /\ start_fan(c, hmsg[c], clients_to_send(NoSession), "loop")
  /\ UNCHANGED <<clients, next_client_id, username_to_client, srv_sequence_num,
                 running, username, connected, sockOpen, peerClosed, sent,
                 hmsg, hrcpt, mark, quiet, peer_seq, nframes, cvars, avars>>

\* The snapshot of a server that relays a message to a session once only.
SnapMsg_dedup(c) ==
  /\ hpc[c] = "snap_msg"
  /\ start_fan(c, hmsg[c],
               SelectSeq(clients_to_send(IF hmsg[c].type = "CHAT_MSG" THEN c ELSE NoSession),
                         LAMBDA x : Count(sent[x], hmsg[c]) = 0),
               "loop")
  /\ UNCHANGED <<clients, next_client_id, username_to_client, srv_sequence_num,
                 running, username, connected, sockOpen, peerClosed, sent,
                 hmsg, hrcpt, mark, quiet, peer_seq, nframes, cvars, avars>>

\* _handle_chat_message / _handle_broadcast: the snapshot of _broadcast_message,
\* which leaves the sender out for CHAT_MSG only.
SnapMsg(c) ==
  /\ hpc[c] = "snap_msg"
  /\ start_fan(c, hmsg[c],
               clients_to_send(IF hmsg[c].type = "CHAT_MSG" THEN c ELSE NoSession),
               "loop")
  /\ UNCHANGED <<clients, next_client_id, username_to_client, srv_sequence_num,
                 running, username, connected, sockOpen, peerClosed, sent,
                 hmsg, hrcpt, mark, quiet, peer_seq, nframes, cvars, avars>>

\* _broadcast_message: one turn of the loop over clients_to_send.
Fan(c) ==
  /\ hpc[c] = "fan"
  /\ \E ok \in SendOutcomes(Head(hlist[c])) : send_message(Head(hlist[c]), hout[c], ok)
  /\ hlist' = [hlist EXCEPT ![c] = Tail(@)]
  /\ hpc' = [hpc EXCEPT ![c] = IF Tail(hlist[c]) # <<>> THEN "fan"
                                ELSE IF hafter[c] = "loop" THEN loop(c, connected')
                                ELSE hafter[c]]
  /\ UNCHANGED <<clients, next_client_id, username_to_client, srv_sequence_num,
                 running, username, sockOpen, peerClosed,
                 hmsg, hout, hafter, hrcpt, mark, peer_seq, nframes, cvars, avars>>
  /\ watch(NoSession)

\* The lookup that finds nobody.
PrivLookup_misses(c) ==
  /\ hpc[c] = "priv_lookup"
  /\ hrcpt' = [hrcpt EXCEPT ![c] = NoSession]
  /\ hpc' = [hpc EXCEPT ![c] = "priv_fwd"]
  /\ UNCHANGED <<clients, next_client_id, username_to_client, srv_sequence_num,
                 running, username, connected, sockOpen, peerClosed, sent,
                 hmsg, hout, hlist, hafter, mark, quiet, peer_seq, nframes, cvars, avars>>

\* A lookup by session instead of by name: any other session in self.clients
\* is taken for the recipient.
PrivLookup_by_id(c) ==
  /\ hpc[c] = "priv_lookup"
  /\ \E x \in clients \ {c} : hrcpt' = [hrcpt EXCEPT ![c] = x]
  /\ hpc' = [hpc EXCEPT ![c] = "priv_fwd"]
  /\ UNCHANGED <<clients, next_client_id, username_to_client, srv_sequence_num,
                 running, username, connected, sockOpen, peerClosed, sent,
                 hmsg, hout, hlist, hafter, mark, quiet, peer_seq, nframes, cvars, avars>>

\* _handle_private_message: the lookup of the recipient under clients_lock.
PrivLookup(c) ==
  /\ hpc[c] = "priv_lookup"
  /\ hrcpt' = [hrcpt EXCEPT ![c] = username_to_client[hmsg[c].name]]
  /\ hpc' = [hpc EXCEPT ![c] = "priv_fwd"]
  /\ UNCHANGED <<clients, next_client_id, username_to_client, srv_sequence_num,
                 running, username, connected, sockOpen, peerClosed, sent,
                 hmsg, hout, hlist, hafter, mark, quiet, peer_seq, nframes, cvars, avars>>

\* The forward without the ERROR for a recipient not found.
PrivFwd_no_error(c) ==
  /\ hpc[c] = "priv_fwd"
  /\ IF hrcpt[c] # NoSession /\ connected[hrcpt[c]]
     THEN \E ok \in SendOutcomes(hrcpt[c]) : send_message(hrcpt[c], hmsg[c], ok)
     ELSE UNCHANGED <<sent, connected>>
  /\ hpc' = [hpc EXCEPT ![c] = loop(c, connected')]
  /\ UNCHANGED <<clients, next_client_id, username_to_client, running, username,
                 sockOpen, peerClosed, hmsg, hout, hlist, hafter, hrcpt,
                 mark, peer_seq, nframes, cvars, avars, srv_sequence_num>>
  /\ watch(NoSession)

\* _handle_private_message: the forward to the recipient found, or the ERROR
\* (with the next server sequence number) back to the sender.
PrivFwd(c) ==
  /\ hpc[c] = "priv_fwd"
  /\ IF hrcpt[c] # NoSession /\ connected[hrcpt[c]]
     THEN /\ \E ok \in SendOutcomes(hrcpt[c]) : send_message(hrcpt[c], hmsg[c], ok)
          /\ UNCHANGED srv_sequence_num
     ELSE /\ \E ok \in SendOutcomes(c) :
               send_message(c, error_message(hmsg[c].name, srv_sequence_num, c), ok)
          /\ srv_sequence_num' = srv_sequence_num + 1
  /\ hpc' = [hpc EXCEPT ![c] = loop(c, connected')]
  /\ UNCHANGED <<clients, next_client_id, username_to_client, running, username,
                 sockOpen, peerClosed, hmsg, hout, hlist, hafter, hrcpt,
                 mark, peer_seq, nframes, cvars, avars>>
  /\ watch(NoSession)

\* _disconnect_client: the removal from both indices under clients_lock.
Disc(c) ==
  /\ hpc[c] = "disc"
  /\ clients' = clients \ {c}
  /\ username_to_client' =
       IF username[c] # NoName /\ username_to_client[username[c]] # NoSession
       THEN [username_to_client EXCEPT ![username[c]] = NoSession]
       ELSE username_to_client
  /\ hpc' = [hpc EXCEPT ![c] = IF username[c] # NoName THEN "snap_leave" ELSE "close"]
  /\ UNCHANGED <<next_client_id, srv_sequence_num, running, username, connected,
                 sockOpen, peerClosed, sent, hmsg, hout, hlist, hafter, hrcpt,
                 mark, peer_seq, nframes, cvars, avars>>
  /\ watch(NoSession)

\* _disconnect_client: the leave notice takes the next server sequence number
\* and _broadcast_message(leave_msg) takes its snapshot.
SnapLeave(c) ==
  /\ hpc[c] = "snap_leave"
  /\ srv_sequence_num' = srv_sequence_num + 1
  /\ start_fan(c, notice_message(username[c], "left", srv_sequence_num),
               clients_to_send(NoSession), "close")
  /\ UNCHANGED <<clients, next_client_id, username_to_client, running, username,
                 connected, sockOpen, peerClosed, sent, hmsg, hrcpt, mark, quiet, peer_seq, nframes, cvars, avars>>

\* _disconnect_client: client.close(), after which the handler thread ends.
Close(c) ==
  /\ hpc[c] = "close"
  /\ close(c)
  /\ hpc' = [hpc EXCEPT ![c] = "exit"]
  /\ UNCHANGED <<clients, next_client_id, username_to_client, srv_sequence_num,
                 running, username, peerClosed, sent, hmsg, hout, hlist, hafter,
                 hrcpt, mark, peer_seq, nframes, cvars, avars>>
  /\ watch(NoSession)

\* stop(): running is cleared, every session of self.clients is closed and the
\* dictionary is cleared (username_to_client is left as it is).
stop ==
  /\ running
  /\ running' = FALSE
  /\ sockOpen' = [c \in Sessions |-> sockOpen[c] /\ c \notin clients]
  /\ connected' = [c \in Sessions |-> connected[c] /\ c \notin clients]
  /\ clients' = {}
  /\ UNCHANGED <<next_client_id, username_to_client, srv_sequence_num, username,
                 peerClosed, sent, hpc, hmsg, hout, hlist, hafter, hrcpt, mark,
                 peer_seq, nframes, cvars, avars>>
  /\ watch(NoSession)

\* get_stats, under clients_lock.
get_stats ==
  [total_clients |-> Cardinality(clients),
   connected_users |-> {username[c] : c \in {x \in clients : username[x] # NoName}},
   sequence_number |-> srv_sequence_num]

\* --------------------------------------------------------- _heartbeat_loop
\* The test that flags a session one scan interval early.
is_stale_early(t, last) == t - last >= HEARTBEAT_TIMEOUT

\* _heartbeat_loop: current_time - client.last_heartbeat > 90
is_stale(t, last) == t - last > HEARTBEAT_TIMEOUT

\* What the heartbeat thread leaves alone.
scanUnchanged ==
  <<clients, next_client_id, username_to_client, srv_sequence_num, running, username,
    sockOpen, peerClosed, sent, hpc, hmsg, hout, hlist, hafter, hrcpt, mark, peer_seq,
    nframes, cvars, gvars, kvars, jvars, ovars, last_heartbeat, time_now>>

\* A scan interval passes.
Tick ==
  /\ time_now + SCAN_INTERVAL <= MaxTicks * SCAN_INTERVAL
  /\ time_now' = time_now + SCAN_INTERVAL
  /\ UNCHANGED <<svars, cvars, gvars, kvars, jvars, ovars, last_heartbeat,
                 mpc, mlist, mtime, scannedAt, expired>>

\* _heartbeat_loop wakes from time.sleep(30), takes the snapshot of
\* self.clients under clients_lock and reads the clock.
ScanStart ==
  /\ running
  /\ mpc = "sleep"
  /\ scannedAt < time_now
  /\ scannedAt' = time_now
  /\ mtime' = time_now
  /\ mlist' = SetToSeq(clients)
  /\ mpc' = IF clients = {} THEN "sleep" ELSE "scan"
  /\ UNCHANGED <<scanUnchanged, connected, quiet, expired>>

\* _heartbeat_loop: one turn of the loop over the snapshot.
ScanOne ==
  /\ mpc = "scan"
  /\ LET c == Head(mlist)
     IN IF is_stale(mtime, last_heartbeat[c])
        THEN /\ connected' = [connected EXCEPT ![c] = FALSE]
             /\ expired' = expired \cup {c}
        ELSE UNCHANGED <<connected, expired>>
  /\ mlist' = Tail(mlist)
  /\ mpc' = IF Tail(mlist) = <<>> THEN "sleep" ELSE "scan"
  /\ UNCHANGED <<scanUnchanged, mtime, scannedAt>>
  /\ watch(NoSession)

\* ------------------------------------------------------ environment (Spec)
\* The frames a peer can put on the connection of session c, with the peer's
\* own sequence number s.
EnvFrames(c, s) ==
  {connect_message(u, s, c) : u \in Names}
  \cup {private_message("", r, s, c) : r \in Names}
  \cup {disconnect_message("", s, c), chat_message("", s, c), broadcast_message("", s, c),
        heartbeat_message(s, c), Msg("CHAT_ACK", s, c, "", "success", s)}

\* A peer sends a frame and the session's handler takes it.
EnvFrame(c) ==
  /\ nframes < MaxFrames
  /\ ~peerClosed[c]
  /\ nframes' = nframes + 1
  /\ \E m \in EnvFrames(c, peer_seq[c]) :
       Receive(c, m)
  /\ peer_seq' = [peer_seq EXCEPT ![c] = @ + 1]
  /\ UNCHANGED <<cvars, gvars, kvars, jvars, mrest, ovars>>

\* A peer closes its end of the connection.
PeerClose(c) ==
  /\ nframes < MaxFrames
  /\ hpc[c] \notin {"none", "exit"}
  /\ ~peerClosed[c]
  /\ peerClosed' = [peerClosed EXCEPT ![c] = TRUE]
  /\ nframes' = nframes + 1
  /\ UNCHANGED <<clients, next_client_id, username_to_client, srv_sequence_num,
                 running, username, connected, sockOpen, sent,
                 hpc, hmsg, hout, hlist, hafter, hrcpt, mark, quiet, peer_seq, cvars, avars>>

EnvReadFail(c) == ReadFail(c) /\ UNCHANGED <<nframes, cvars, avars>>

\* A peer sends a complete frame that fails decoding: _receive_message reads
\* the length prefix and the bytes, deserialize returns None (or raises, which
\* is caught), _receive_message returns None and _handle_client leaves its
\* loop for _disconnect_client.
BadFrame(c) ==
  /\ nframes < MaxFrames
  /\ ~peerClosed[c]
  /\ hpc[c] = "recv"
  /\ sockOpen[c]
  /\ nframes' = nframes + 1
  /\ hmsg' = [hmsg EXCEPT ![c] = Garbled]
  /\ hpc' = [hpc EXCEPT ![c] = "disc"]
  /\ UNCHANGED <<clients, next_client_id, username_to_client, srv_sequence_num,
                 running, username, connected, sockOpen, peerClosed, sent,
                 hout, hlist, hafter, hrcpt, mark, quiet, peer_seq, cvars, avars>>

\* ------------------------------------------------------------ specification
InitServer ==
  /\ clients = {}
  /\ next_client_id = 1
  /\ username_to_client = [u \in Names |-> NoSession]
  /\ srv_sequence_num = 0
  /\ running = TRUE
  /\ username = [c \in Sessions |-> NoName]
  /\ connected = [c \in Sessions |-> TRUE]
  /\ sockOpen = [c \in Sessions |-> TRUE]
  /\ peerClosed = [c \in Sessions |-> FALSE]
  /\ sent = [c \in Sessions |-> <<>>]
  /\ hpc = [c \in Sessions |-> "none"]
  /\ hmsg = [c \in Sessions |-> NoMsg]
  /\ hout = [c \in Sessions |-> NoMsg]
  /\ hlist = [c \in Sessions |-> <<>>]
  /\ hafter = [c \in Sessions |-> "loop"]
  /\ hrcpt = [c \in Sessions |-> NoSession]
  /\ mark = [c \in Sessions |-> 0]
  /\ quiet = [c \in Sessions |-> TRUE]
  /\ peer_seq = [c \in Sessions |-> 0]
  /\ nframes = 0

InitClient ==
  /\ cli_sock = "none"
  /\ cli_username = NoName
  /\ cli_sequence_num = 0
  /\ pending_acks = {}
  /\ cli_connected = FALSE
  /\ cli_running = FALSE
  /\ cpc = "idle"
  /\ cop = "none"
  /\ cmsg = NoMsg
  /\ retries = 0
  /\ cret = FALSE
  /\ rpc = "none"
  /\ c2s = <<>>
  /\ nops = 0
  /\ txCount = 0
  /\ dropCount = 0
  /\ replyLost = FALSE
  /\ late = 0
  /\ sendErr = FALSE
  /\ ackSeen = FALSE
  /\ nackSeen = FALSE
  /\ nackHit = FALSE
  /\ txAtNack = 0
  /\ processed = {}

\* No thread is in get_next_sequence and the counter is as __init__ leaves it.
InitSeq ==
  /\ sequence_num = 0
  /\ seq_lock = NoThread
  /\ tpc = [t \in Threads |-> "idle"]
  /\ tseq = [t \in Threads |-> 0]
  /\ ttmp = [t \in Threads |-> 0]
  /\ handed = [t \in Threads |-> <<>>]

\* What deserialize returns for a frame it rejects, and the marker of an
\* exception that leaves it.
None == [msg_type |-> "None"]
Raised == [msg_type |-> "Raised"]

\* No message is in the codec.
InitCodecIdle ==
  /\ kmsg = None
  /\ kclock = 0
  /\ kpc = "idle"
  /\ kdata = <<>>
  /\ kfault = "none"
  /\ kout = None
  /\ kreply = None
  /\ kreason = <<>>

\* No join notice has been sent.
InitJoin == regAtJoin = [c \in Sessions |-> {}]

\* The clock is at 0 and the heartbeat thread sleeps.
InitMonitor ==
  /\ time_now = 0
  /\ last_heartbeat = [c \in Sessions |-> 0]
  /\ mpc = "sleep"
  /\ mlist = <<>>
  /\ mtime = 0
  /\ scannedAt = 0
  /\ expired = {}

\* Nobody holds the registry lock.
InitLocks == clients_lock = NoSession

\* No thread has called a send operation yet.
InitCallers ==
  /\ callpc = [t \in Callers |-> "idle"]
  /\ callmsg = [t \in Callers |-> NoMsg]
  /\ callretries = [t \in Callers |-> 0]
  /\ callret = [t \in Callers |-> "none"]
  /\ ncalls = [t \in Callers |-> 0]
  /\ wire = <<>>
  /\ inbox = <<>>
  /\ recvpc = "recv"
  /\ recvmsg = NoMsg
  /\ npushed = 0
  /\ ackCase = "none"

\* No thread runs a code path and every lock is free.
InitPaths ==
  /\ todo = [t \in LockThreads |-> <<>>]
  /\ holder = [l \in Locks |-> NoThread]
  /\ nruns = [t \in LockThreads |-> 0]

InitAux ==
  InitSeq /\ InitCodecIdle /\ InitJoin /\ InitMonitor /\ InitCallers /\ InitLocks /\ InitPaths

Init == InitServer /\ InitClient /\ InitAux

\* The steps of the handler thread of session c.
Handler(c) ==
  \/ ConnAck(c)
  \/ SnapJoin(c)
  \/ SnapMsg(c)
  \/ Fan(c)
  \/ PrivLookup(c)
  \/ PrivFwd(c)
  \/ Disc(c)
  \/ SnapLeave(c)
  \/ Close(c)

Next ==
  \/ Accept
  \/ \E c \in Sessions : Handler(c)
  \/ \E c \in Sessions : EnvFrame(c)
  \/ \E c \in Sessions : EnvReadFail(c)
  \/ \E c \in Sessions : PeerClose(c)
  \/ \E c \in Sessions : BadFrame(c)

Spec == Init /\ [][Next]_vars

\* A peer sends a CONNECT or a HEARTBEAT and the session's handler takes it.
LiveFrame(c) ==
  /\ nframes < MaxFrames
  /\ ~peerClosed[c]
  /\ nframes' = nframes + 1
  /\ \E m \in {connect_message(u, peer_seq[c], c) : u \in Names}
              \cup {heartbeat_message(peer_seq[c], c)} :
       Receive(c, m)
  /\ peer_seq' = [peer_seq EXCEPT ![c] = @ + 1]
  /\ UNCHANGED <<cvars, gvars, kvars, jvars, mrest, ovars>>

\* The steps of the handler thread of session c that these frames lead to.
LiveHandler(c) ==
  \/ ConnAck(c)
  \/ SnapJoin(c)
  \/ Fan(c)
  \/ Disc(c)
  \/ SnapLeave(c)
  \/ Close(c)

\* The server with its heartbeat thread and the clock, its peers sending
\* CONNECT and HEARTBEAT frames.
NextLive ==
  \/ Accept
  \/ \E c \in Sessions : LiveHandler(c)
  \/ \E c \in Sessions : LiveFrame(c)
  \/ \E c \in Sessions : EnvReadFail(c)
  \/ \E c \in Sessions : PeerClose(c)
  \/ Tick
  \/ ScanStart
  \/ ScanOne

SpecLive == Init /\ [][NextLive]_vars

\* A peer sends a frame of an ACK type or a NACK and the session's handler
\* takes it.
AckFrame(c) ==
  /\ nframes < MaxFrames
  /\ ~peerClosed[c]
  /\ nframes' = nframes + 1
  /\ \E m \in {Msg(t, peer_seq[c], c, "", "success", 0) : t \in AckTypes}
              \cup {Msg("NACK", peer_seq[c], c, "", "failure", 0)} :
       Receive(c, m)
  /\ peer_seq' = [peer_seq EXCEPT ![c] = @ + 1]
  /\ UNCHANGED <<cvars, gvars, kvars, jvars, mrest, ovars>>

\* The server and the clock, its peers sending acknowledgements only.
NextAck ==
  \/ Accept
  \/ Tick
  \/ \E c \in Sessions : AckFrame(c)
  \/ \E c \in Sessions : PeerClose(c)
  \/ \E c \in Sessions : EnvReadFail(c)
  \/ \E c \in Sessions : Disc(c)
  \/ \E c \in Sessions : Close(c)

SpecAck == Init /\ [][NextAck]_vars

\* ------------------------------------------- the registry lock (SpecLocks)
lockUnchanged ==
  <<clients, next_client_id, srv_sequence_num, running, sockOpen, peerClosed, hout, hlist,
    hafter, hrcpt, cvars, gvars, kvars, jvars, mrest, pvars, dvars>>

\* A peer sends a CONNECT; the session's handler reads it, notes the time and
\* arrives at "with self.clients_lock" in _handle_connect.
LkTake(c) ==
  /\ nframes < MaxFrames
  /\ ~peerClosed[c]
  /\ hpc[c] = "recv"
  /\ sockOpen[c]
  /\ nframes' = nframes + 1
  /\ \E u \in Names : hmsg' = [hmsg EXCEPT ![c] = connect_message(u, peer_seq[c], c)]
  /\ peer_seq' = [peer_seq EXCEPT ![c] = @ + 1]
  /\ mark' = [mark EXCEPT ![c] = Len(sent[c])]
  /\ last_heartbeat' = [last_heartbeat EXCEPT ![c] = time_now]
  /\ hpc' = [hpc EXCEPT ![c] = "connect_lock"]
  /\ UNCHANGED <<lockUnchanged, username, username_to_client, connected, sent,
                 clients_lock>>
  /\ watch(c)

\* _handle_connect: the lock is acquired and the index is tested. A free name
\* is registered and the with block is left; for a taken name the handler
\* goes on inside the with block.
LkConnect(c) ==
  /\ hpc[c] = "connect_lock"
  /\ clients_lock = NoSession
  /\ IF username_to_client[hmsg[c].name] # NoSession
     THEN /\ clients_lock' = c
          /\ hpc' = [hpc EXCEPT ![c] = "nack"]
          /\ UNCHANGED <<username, username_to_client>>
     ELSE /\ username' = [username EXCEPT ![c] = hmsg[c].name]
          /\ username_to_client' = [username_to_client EXCEPT ![hmsg[c].name] = c]
          /\ hpc' = [hpc EXCEPT ![c] = "conn_ack"]
          /\ UNCHANGED clients_lock
  /\ UNCHANGED <<lockUnchanged, connected, sent, hmsg, mark, peer_seq, nframes,
                 last_heartbeat>>
  /\ watch(NoSession)

\* _handle_connect, inside the with block: client.send_message(nack), then
\* the return leaves the block and releases the lock.
LkNack(c) ==
  /\ hpc[c] = "nack"
  /\ clients_lock = c
  /\ \E ok \in SendOutcomes(c) :
       send_message(c, create_nack(hmsg[c], "Username already taken"), ok)
  /\ clients_lock' = NoSession
  /\ hpc' = [hpc EXCEPT ![c] = loop(c, connected')]
  /\ UNCHANGED <<lockUnchanged, username, username_to_client, hmsg, mark, peer_seq,
                 nframes, last_heartbeat>>
  /\ watch(NoSession)

\* A peer sends a frame other than CONNECT and the session's handler takes it.
LkFrame(c) == EnvFrame(c) /\ hmsg'[c].type # "CONNECT"

\* The steps of a handler that are a with self.clients_lock block.
LkSection(c) ==
  /\ clients_lock = NoSession
  /\ SnapJoin(c) \/ SnapMsg(c) \/ PrivLookup(c) \/ Disc(c) \/ SnapLeave(c)

\* The steps of a handler that are a call of send_message or close.
LkIO(c) == ConnAck(c) \/ Fan(c) \/ PrivFwd(c) \/ Close(c)

\* The accept loop adds the session inside a with self.clients_lock block.
LkAccept == clients_lock = NoSession /\ Accept

\* The server with its registry lock.
NextLocks ==
  \/ LkAccept
  \/ \E c \in Sessions : LkTake(c)
  \/ \E c \in Sessions : LkConnect(c)
  \/ \E c \in Sessions : LkNack(c)
  \/ \E c \in Sessions : LkFrame(c)
  \/ \E c \in Sessions : LkSection(c)
  \/ \E c \in Sessions : LkIO(c)
  \/ \E c \in Sessions : EnvReadFail(c)
  \/ \E c \in Sessions : PeerClose(c)

SpecLocks == Init /\ [][NextLocks]_vars

\* The server's threads are scheduled fairly: the handler thread of every
\* session (its steps, and its read when the stream has ended) and the
\* heartbeat thread. Nothing is assumed of the peers or of the clock.
HandlerThread(c) == LiveHandler(c) \/ EnvReadFail(c)
HeartbeatThread == ScanStart \/ ScanOne

SpecLiveFair ==
  /\ SpecLive
  /\ \A c \in Sessions : WF_vars(HandlerThread(c))
  /\ WF_vars(HeartbeatThread)

\* ------------------------------------------------- properties of the server
\* The handler of session c has returned from _process_message.
Handled(c) == hpc[c] \in {"recv", "disc"}

\* Session x is in self.clients with its connected flag set.
Live(x) == x \in clients /\ connected[x]

\* The frames of type t written to session c since its handler took its
\* current frame.
SentSince(c, t) == {i \in (mark[c] + 1)..Len(sent[c]) : sent[c][i].type = t}

\* C11: a complete frame that fails decoding is dropped without ending the
\* session: while the peer keeps its end open, the session that read such a
\* frame stays in self.clients with its socket open and its handler goes on
\* reading.
C11_FramingErrorNonFatal ==
  \A c \in Sessions :
    (hmsg[c] = Garbled /\ ~peerClosed[c])
    => /\ c \in clients
       /\ sockOpen[c]
       /\ hpc[c] = "recv"

\* C5 (first part): in every state at most one session of self.clients holds
\* a given username.
C5_AtMostOneHolder ==
  \A u \in Names : Cardinality({c \in clients : username[c] = u}) <= 1

\* Sessions a and b have each sent CONNECT u as their first frame, nobody
\* else has sent anything, and both handlers are past their reply.
C5_TwoConnects(a, b, u) ==
  /\ a # b
  /\ {a, b} \subseteq clients
  /\ hmsg[a] = connect_message(u, 0, a)
  /\ hmsg[b] = connect_message(u, 0, b)
  /\ hpc[a] # "conn_ack" /\ hpc[b] # "conn_ack"
  /\ ~peerClosed[a] /\ ~peerClosed[b]
  /\ \A c \in Sessions \ {a, b} : hmsg[c] = NoMsg

\* C5 (second part): of two sessions whose handlers process CONNECT with the
\* same free username, in any interleaving, exactly one ends with the name
\* bound to it and is sent the ACK; the other stays without a name and is
\* sent the NACK.
C5_OneAckOneNack ==
  \A a \in Sessions : \A b \in Sessions : \A u \in Names :
    C5_TwoConnects(a, b, u)
    => \E w \in {a, b} :
         LET l == IF w = a THEN b ELSE a
         IN /\ username[w] = u
            /\ username_to_client[u] = w
            /\ Count(sent[w], create_ack(hmsg[w])) = 1
            /\ Count(sent[w], create_nack(hmsg[w], "Username already taken")) = 0
            /\ username[l] = NoName
            /\ Count(sent[l], create_nack(hmsg[l], "Username already taken")) = 1
            /\ Count(sent[l], create_ack(hmsg[l])) = 0

\* C5: username exclusivity under concurrent CONNECTs.
C5_UsernameExclusive == C5_AtMostOneHolder /\ C5_OneAckOneNack

C5_Witness ==
  \E a \in Sessions : \E b \in Sessions : \E u \in Names :
    /\ C5_TwoConnects(a, b, u)
    /\ username[b] = u
    /\ a < b

\* The handler of registered session c has finished a BROADCAST, and no
\* session registered or left meanwhile.
C6_BroadcastDone(c) ==
  /\ hmsg[c].type = "BROADCAST"
  /\ Handled(c)
  /\ quiet[c]
  /\ Registered(c)

\* C6: a BROADCAST of a registered session A, handled while N other sessions
\* are registered and none joins or leaves, is written exactly once to each
\* of the N + 1 registered sessions, A among them, and to no other session,
\* and A is sent exactly one BROADCAST_ACK for it.
C6_BroadcastFanOut ==
  \A c \in Sessions :
    C6_BroadcastDone(c)
    => /\ \A x \in Sessions :
            Count(sent[x], hmsg[c]) = IF Registered(x) THEN 1 ELSE 0
       /\ Cardinality({x \in Sessions : Count(sent[x], hmsg[c]) > 0})
            = Cardinality({x \in Sessions \ {c} : Registered(x)}) + 1
       /\ Count(sent[c], create_ack(hmsg[c])) = 1
       /\ create_ack(hmsg[c]).type = "BROADCAST_ACK"

C6_Witness ==
  \E c \in Sessions :
    /\ C6_BroadcastDone(c)
    /\ \E x \in Sessions \ {c} : Registered(x) /\ Count(sent[x], hmsg[c]) = 1

\* The handler of live session c has finished a CHAT_MSG, and no session
\* registered or left meanwhile.
C7_ChatDone(c) ==
  /\ hmsg[c].type = "CHAT_MSG"
  /\ Handled(c)
  /\ quiet[c]
  /\ Live(c)

\* C7: for a CHAT_MSG processed, the sender is sent one CHAT_ACK and the
\* message goes unchanged (same type, sequence number and payload) exactly
\* once to every other registered live session and to nobody else; no
\* session is ever sent a CHAT_MSG of its own.
C7_ChatRelay ==
  /\ \A c \in Sessions : \A i \in 1..Len(sent[c]) :
        sent[c][i].type = "CHAT_MSG" => sent[c][i].src # c
  /\ \A c \in Sessions :
        C7_ChatDone(c)
        => /\ Count(sent[c], create_ack(hmsg[c])) = 1
           /\ create_ack(hmsg[c]).type = "CHAT_ACK"
           /\ \A x \in Sessions \ {c} :
                /\ Count(sent[x], hmsg[c]) = IF Registered(x) THEN 1 ELSE 0
                /\ \A i \in 1..Len(sent[x]) :
                     (sent[x][i].src = c /\ sent[x][i].seq = hmsg[c].seq)
                     => sent[x][i] = hmsg[c]

C7_Witness ==
  \E c \in Sessions :
    /\ C7_ChatDone(c)
    /\ Registered(c)
    /\ \E x \in Sessions \ {c} : Registered(x) /\ Count(sent[x], hmsg[c]) = 1

\* The handler of live session c has finished a PRIVATE_MSG, and no session
\* registered or left meanwhile.
PrivateDone(c) ==
  /\ hmsg[c].type = "PRIVATE_MSG"
  /\ Handled(c)
  /\ quiet[c]
  /\ Live(c)

\* C8: for a PRIVATE_MSG naming a recipient that the username index does not
\* hold, the sender is sent exactly one ERROR, which names that recipient,
\* and the PRIVATE_MSG is written to no session.
C8_UnknownRecipient ==
  \A c \in Sessions :
    (PrivateDone(c) /\ username_to_client[hmsg[c].name] = NoSession)
    => /\ Cardinality(SentSince(c, "ERROR")) = 1
       /\ \A i \in SentSince(c, "ERROR") : sent[c][i].name = hmsg[c].name
       /\ \A x \in Sessions : Count(sent[x], hmsg[c]) = 0

C8_Witness ==
  \E c \in Sessions :
    /\ PrivateDone(c)
    /\ username_to_client[hmsg[c].name] = NoSession
    /\ \E x \in Sessions \ {c} : Registered(x)

\* C9: for a PRIVATE_MSG naming a username the index binds to a live session,
\* the message is written exactly once to that session and to no other, the
\* sender is sent exactly one PRIVATE_ACK and no ERROR.
C9_KnownRecipient ==
  \A c \in Sessions :
    (PrivateDone(c) /\ username_to_client[hmsg[c].name] # NoSession
                    /\ Live(username_to_client[hmsg[c].name]))
    => /\ \A x \in Sessions :
            Count(sent[x], hmsg[c])
              = IF x = username_to_client[hmsg[c].name] THEN 1 ELSE 0
       /\ Count(sent[c], create_ack(hmsg[c])) = 1
       /\ create_ack(hmsg[c]).type = "PRIVATE_ACK"
       /\ SentSince(c, "ERROR") = {}

C9_Witness ==
  \E c \in Sessions :
    /\ PrivateDone(c)
    /\ username_to_client[hmsg[c].name] \in clients \ {c}
    /\ Live(username_to_client[hmsg[c].name])
    /\ Count(sent[username_to_client[hmsg[c].name]], hmsg[c]) = 1

\* The transport of session c has been accepted; its teardown
\* (_disconnect_client) has removed it from the registry.
Accepted(c) == hpc[c] # "none"
TornDown(c) ==
  \/ hpc[c] \in {"snap_leave", "close", "exit"}
  \/ hpc[c] = "fan" /\ hafter[c] = "close"

\* C16: while the server runs, self.clients holds exactly the sessions whose
\* transport was accepted and not torn down, each under an id of its own (the
\* ids handed out are 1..next_client_id - 1, one per accepted transport); so
\* when N transports were accepted and none torn down, get_stats reports
\* total_clients = N.
C16_OneSessionPerTransport ==
  running =>
    /\ clients = {c \in Sessions : Accepted(c) /\ ~TornDown(c)}
    /\ {c \in Sessions : Accepted(c)} = 1..(next_client_id - 1)
    /\ (\A c \in Sessions : ~TornDown(c)) =>
          get_stats.total_clients = next_client_id - 1

\* Two transports were accepted, one session has registered, none was torn
\* down, and get_stats reports two clients.
C16_Witness ==
  /\ next_client_id = 3
  /\ \A c \in Sessions : ~TornDown(c)
  /\ get_stats.total_clients = 2
  /\ get_stats.connected_users # {}

\* C17: every entry of the username index refers to a session that is in the
\* id index.
C17_NoDanglingUsername ==
  \A u \in Names :
    username_to_client[u] # NoSession => username_to_client[u] \in clients

\* The handler of session c has finished a CONNECT for which it sent the
\* CONNECT_ACK.
C19_JoinDone(c) ==
  /\ hmsg[c].type = "CONNECT"
  /\ Handled(c)
  /\ SentSince(c, "CONNECT_ACK") # {}

\* The transport of session x works in both directions.
Reachable(x) == sockOpen[x] /\ ~peerClosed[x]

\* C19: a CONNECT with an unused username binds the name to the session, the
\* session is sent one CONNECT_ACK, and after that the server's 'joined'
\* BROADCAST is written exactly once to every other session that is
\* registered when the notice goes out (and whose transport takes it), to no
\* other session, and never to the joining session; the ACK is there before
\* the first notice is written.
C19_RegistrationSequence ==
  \A c \in Sessions :
    /\ C19_JoinDone(c) =>
         /\ username[c] = hmsg[c].name
         /\ username_to_client[hmsg[c].name] = c
         /\ Count(sent[c], create_ack(hmsg[c])) = 1
         /\ create_ack(hmsg[c]).type = "CONNECT_ACK"
         /\ hout[c] = notice_message(hmsg[c].name, "joined", hout[c].seq)
         /\ Count(sent[c], hout[c]) = 0
         /\ \A x \in Sessions \ {c} :
              /\ Count(sent[x], hout[c]) <= 1
              /\ x \notin regAtJoin[c] => Count(sent[x], hout[c]) = 0
              /\ (x \in regAtJoin[c] /\ Reachable(x)) => Count(sent[x], hout[c]) = 1
    /\ (hpc[c] = "fan" /\ hafter[c] = "loop" /\ hmsg[c].type = "CONNECT" /\ Reachable(c)) =>
         /\ Count(sent[c], create_ack(hmsg[c])) = 1
         /\ Count(sent[c], hout[c]) = 0

\* Session c has joined while another session was registered, and that
\* session holds c's notice.
C19_Witness ==
  \E c \in Sessions :
    /\ C19_JoinDone(c)
    /\ \E x \in Sessions \ {c} :
         /\ x \in regAtJoin[c]
         /\ Registered(x)
         /\ Count(sent[x], hout[c]) = 1

\* The handler of session c, which has no name, takes a CONNECT for a name
\* bound to a session of self.clients and rejects it: both indices and every
\* session's name stay as they are, no notice is prepared or written, and if
\* the transport of c works, c is sent the NACK, keeps its socket and its
\* connected flag, and its handler goes back to reading.
C20_RejectStep(c) ==
  (/\ hmsg'[c] # hmsg[c]
   /\ hmsg'[c].type = "CONNECT"
   /\ username[c] = NoName
   /\ username_to_client[hmsg'[c].name] \in clients)
  => /\ UNCHANGED <<clients, username_to_client, username, hout, srv_sequence_num, sockOpen>>
     /\ \A x \in Sessions \ {c} : sent'[x] = sent[x]
     /\ Reachable(c) =>
          /\ sent'[c] = Append(sent[c], create_nack(hmsg'[c], "Username already taken"))
          /\ connected'[c]
          /\ c \in clients'
          /\ hpc'[c] = "recv"

\* Session c was sent a NACK before.
WasRejected(c) == \E i \in 1..mark[c] : sent[c][i].type = "NACK"

\* The handler of session c, rejected before and still without a name, takes
\* a CONNECT for a name nobody holds: the name is bound to c.
C20_RetryStep(c) ==
  (/\ hmsg'[c] # hmsg[c]
   /\ hmsg'[c].type = "CONNECT"
   /\ username[c] = NoName
   /\ \E i \in 1..Len(sent[c]) : sent[c][i].type = "NACK"
   /\ username_to_client[hmsg'[c].name] = NoSession)
  => /\ username'[c] = hmsg'[c].name
     /\ username_to_client'[hmsg'[c].name] = c
     /\ hpc'[c] = "conn_ack"

\* C20: a CONNECT for a name bound to a live session leaves the registry
\* unchanged and the requesting session without a name, with its transport
\* open and its handler reading; no 'joined' notice goes out; and a later
\* CONNECT of the same session for an unused name binds that name.
C20_RejectedStaysUsable ==
  [][\A c \in Sessions : C20_RejectStep(c) /\ C20_RetryStep(c)]_vars

\* Session c was rejected, then sent a CONNECT for another name, and its
\* handler has finished that one with the name bound and the ACK sent.
C20_Witness ==
  \E c \in Sessions :
    /\ WasRejected(c)
    /\ C19_JoinDone(c)
    /\ username[c] = hmsg[c].name
    /\ sockOpen[c]

\* The handler thread of session c has finished _disconnect_client.
TeardownDone(c) == hpc[c] = "exit"

\* Some session holds a 'left' notice that names u.
LeftNoticeFor(u) ==
  \E x \in Sessions : \E i \in 1..Len(sent[x]) :
    sent[x][i].type = "BROADCAST" /\ sent[x][i].src = 0
    /\ sent[x][i].text = "left" /\ sent[x][i].name = u

\* C21: once the teardown of a session is done, the session is in neither
\* index and its socket is closed; if it had a name, its 'left' notice was
\* written at most once to any session, never to the session itself and never
\* to a session without a name; if it had none, there is no 'left' notice.
C21_Teardown ==
  \A c \in Sessions :
    TeardownDone(c) =>
      /\ c \notin clients
      /\ \A u \in Names : username_to_client[u] # c
      /\ ~sockOpen[c]
      /\ username[c] # NoName =>
           /\ hout[c] = notice_message(username[c], "left", hout[c].seq)
           /\ Count(sent[c], hout[c]) = 0
           /\ \A x \in Sessions \ {c} :
                /\ Count(sent[x], hout[c]) <= 1
                /\ username[x] = NoName => Count(sent[x], hout[c]) = 0
      /\ username[c] = NoName => ~LeftNoticeFor(NoName)

\* C22: a session the heartbeat thread has flagged is eventually torn down:
\* its handler thread reaches the end of _disconnect_client, whatever its peer
\* does.
C22_TimeoutTeardown ==
  \A c \in Sessions : (c \in expired) ~> TeardownDone(c)

\* A step of the heartbeat thread: it takes its snapshot, or looks at the
\* next session of it.
ScanStep == scannedAt' # scannedAt \/ mlist' # mlist

C24_HeartbeatStep(c) == hmsg'[c] # hmsg[c] /\ hmsg'[c].type = "HEARTBEAT"

\* C24: the step in which a handler takes a HEARTBEAT sets the session's
\* last-heartbeat time to the clock, changes neither index and no name,
\* writes nothing to any other session, prepares no fan-out, and writes to the
\* sender one HEARTBEAT_ACK with the frame's sequence number (nothing else,
\* and nothing at all only if the sender's transport is broken).
C24_HeartbeatHandling ==
  [][\A c \in Sessions :
       C24_HeartbeatStep(c) =>
         LET ack == Msg("HEARTBEAT_ACK", hmsg'[c].seq, c, "", "success", hmsg'[c].seq)
         IN /\ last_heartbeat'[c] = time_now
            /\ UNCHANGED <<clients, username_to_client, username, hout, hlist,
                           srv_sequence_num>>
            /\ \A x \in Sessions \ {c} : sent'[x] = sent[x]
            /\ sent'[c] \in {sent[c], Append(sent[c], ack)}
            /\ Reachable(c) => sent'[c] = Append(sent[c], ack)
            /\ hpc'[c] \in {"recv", "disc"}]_vars

\* A registered session sent a HEARTBEAT after the clock had advanced; it
\* holds one HEARTBEAT_ACK for it, its last-heartbeat time is the clock, and
\* another session is registered.
C24_Witness ==
  \E c \in Sessions :
    /\ hmsg[c].type = "HEARTBEAT"
    /\ time_now > 0
    /\ last_heartbeat[c] = time_now
    /\ Registered(c)
    /\ Count(sent[c], Msg("HEARTBEAT_ACK", hmsg[c].seq, c, "", "success", hmsg[c].seq)) = 1
    /\ \E x \in Sessions \ {c} : Registered(x)

\* C25 (server): the step in which a handler takes a frame of an ACK type or
\* a NACK writes no frame to any session and changes nothing of the server or
\* of the session (the server never fills a session's pending_acks, so there
\* is no entry to remove).
C25_AckNotEchoed ==
  [][\A c \in Sessions :
       (hmsg'[c] # hmsg[c] /\ hmsg'[c].type \in AckTypes \cup {"NACK"}) =>
         /\ UNCHANGED <<sent, clients, username_to_client, username, connected, sockOpen,
                        srv_sequence_num, hout, hlist, last_heartbeat>>
         /\ hpc'[c] = "recv"]_vars

\* ---------------------------------------------------------- ReliableClient
srvUnchanged == <<clients, next_client_id, username_to_client, srv_sequence_num,
                  running, username, connected, sockOpen,
                  hpc, hmsg, hout, hlist, hafter, hrcpt, mark, quiet, peer_seq, nframes,
                  avars>>

\* The caller is inside _send_reliable.
InCall == cpc \in {"send", "reg", "wait", "giveup"}

\* A frame of the exchange is on its way, or the server's handler is at work.
InFlight ==
  \/ sent[CliSess] # <<>>
  \/ c2s # <<>> /\ hpc[CliSess] # "exit"
  \/ hpc[CliSess] \notin {"none", "recv", "exit"}

\* What sendall can do for the client: it raises on a socket the client has
\* closed; once the server has closed the connection it raises or the frame
\* vanishes; otherwise the frame is written, and the transport delivers it
\* or silently drops it.
CliSendOutcomes ==
  IF cli_sock # "open" THEN {"error"}
  ELSE IF ~sockOpen[CliSess] THEN {"error", "lost"}
  ELSE {"ok", "drop"}

\* The transmission that stamps the frame with the counter's current value.
_send_message_renumbered(m, out) ==
  c2s' = IF out = "ok" THEN Append(c2s, [m EXCEPT !.seq = cli_sequence_num]) ELSE c2s

\* _send_message: True unless sendall raised, and then connected is cleared.
_send_message(m, out) == c2s' = IF out = "ok" THEN Append(c2s, m) ELSE c2s

\* The while condition with a strict comparison.
retry_allowed_strict(r) == r < MAX_RETRIES

\* The while condition of _send_reliable.
retry_allowed(r) == r <= MAX_RETRIES

\* disconnect(), from the socket's side: the flags are cleared and the socket
\* is closed, which the server's reader sees as end of stream.
close_socket ==
  /\ cli_running' = FALSE
  /\ cli_sock' = "closed"
  /\ peerClosed' = [peerClosed EXCEPT ![CliSess] = TRUE]

\* _send_reliable returns res to the operation that called it, with conn the
\* connected flag at that moment. connect() sets connected on True and calls
\* disconnect() on False; the send operations hand the result on.
return(res, conn) ==
  /\ cret' = res
  /\ cpc' = "idle"
  /\ IF cop = "connect" /\ ~res
     THEN /\ cli_connected' = FALSE
          /\ close_socket
     ELSE /\ cli_connected' = IF cop = "connect" THEN TRUE ELSE conn
          /\ UNCHANGED <<cli_running, cli_sock, peerClosed>>

\* An operation enters _send_reliable with message m, which took the next
\* sequence number.
start_reliable(op, m) ==
  /\ cop' = op
  /\ cmsg' = m
  /\ cli_sequence_num' = cli_sequence_num + 1
  /\ retries' = 0
  /\ cpc' = "send"
  /\ txCount' = 0
  /\ dropCount' = 0
  /\ replyLost' = FALSE
  /\ late' = 0
  /\ sendErr' = FALSE
  /\ ackSeen' = FALSE
  /\ nackSeen' = FALSE
  /\ nackHit' = FALSE
  /\ txAtNack' = 0

\* connect(username) up to the call of _send_reliable: the TCP connection is
\* made, the receive thread is started, the CONNECT message is built.
Connect(u) ==
  /\ cpc = "idle"
  /\ cli_sock = "none"
  /\ cli_sock' = "open"
  /\ cli_running' = TRUE
  /\ cli_username' = u
  /\ rpc' = "recv"
  /\ start_reliable("connect", connect_message(u, cli_sequence_num, CliSess))
  /\ UNCHANGED <<pending_acks, cli_connected, cret, c2s, nops, processed>>
  /\ UNCHANGED <<srvUnchanged, peerClosed, sent>>

\* The message send_chat_message, send_broadcast or send_private_message builds.
op_message(kind, r) ==
  CASE kind = "chat" -> chat_message(cli_username, cli_sequence_num, CliSess)
    [] kind = "broadcast" -> broadcast_message(cli_username, cli_sequence_num, CliSess)
    [] kind = "private" -> private_message(cli_username, r, cli_sequence_num, CliSess)

\* The send operations without the test of the connected flag.
SendOp_unguarded(kind, r) ==
  /\ cpc = "idle"
  /\ nops < MaxOps
  /\ nops' = nops + 1
  /\ start_reliable(kind, op_message(kind, r))
  /\ UNCHANGED cret
  /\ UNCHANGED <<cli_sock, cli_username, pending_acks, cli_connected, cli_running,
                 rpc, c2s, processed>>
  /\ UNCHANGED <<srvUnchanged, peerClosed, sent>>

\* send_chat_message / send_broadcast / send_private_message up to the call of
\* _send_reliable, or their return of False on a client that is not connected.
SendOp(kind, r) ==
  /\ cpc = "idle"
  /\ nops < MaxOps
  /\ nops' = nops + 1
  /\ IF cli_connected
     THEN /\ start_reliable(kind, op_message(kind, r))
          /\ UNCHANGED cret
     ELSE /\ cop' = kind
          /\ cret' = FALSE
          /\ cmsg' = NoMsg
          /\ UNCHANGED <<cli_sequence_num, retries, cpc, txCount, dropCount, replyLost,
                         late, sendErr, ackSeen, nackSeen, nackHit, txAtNack>>
  /\ UNCHANGED <<cli_sock, cli_username, pending_acks, cli_connected, cli_running,
                 rpc, c2s, processed>>
  /\ UNCHANGED <<srvUnchanged, peerClosed, sent>>

\* _send_reliable: the transmission that opens a turn of the loop.
SendStep ==
  /\ cpc = "send"
  /\ \E out \in CliSendOutcomes :
       /\ _send_message(cmsg, out)
       /\ IF out = "error"
          THEN /\ sendErr' = TRUE
               /\ return(FALSE, FALSE)
               /\ UNCHANGED <<txCount, dropCount>>
          ELSE /\ cpc' = "reg"
               /\ txCount' = txCount + 1
               /\ dropCount' = IF out = "ok" THEN dropCount ELSE dropCount + 1
               /\ UNCHANGED <<sendErr, cret, cli_connected, cli_running, cli_sock, peerClosed>>
  /\ UNCHANGED <<cli_username, cli_sequence_num, pending_acks, cop, cmsg, retries, rpc,
                 nops, replyLost, late, ackSeen, nackSeen, nackHit, txAtNack, processed>>
  /\ UNCHANGED <<srvUnchanged, sent>>

\* _send_reliable: the pending entry is recorded under ack_lock.
RegStep ==
  /\ cpc = "reg"
  /\ pending_acks' = pending_acks \cup {cmsg.seq}
  /\ cpc' = "wait"
  /\ UNCHANGED <<cli_sock, cli_username, cli_sequence_num, cli_connected, cli_running,
                 cop, cmsg, retries, cret, rpc, c2s, nops, txCount,
                 dropCount, replyLost, late, sendErr, ackSeen, nackSeen, nackHit, txAtNack,
                 processed>>
  /\ UNCHANGED <<srvUnchanged, peerClosed, sent>>

\* _send_reliable: the wait loop finds the entry gone and returns True.
PollHit ==
  /\ cpc = "wait"
  /\ cmsg.seq \notin pending_acks
  /\ return(TRUE, cli_connected)
  /\ UNCHANGED <<cli_username, cli_sequence_num, pending_acks, cop, cmsg, retries, rpc,
                 c2s, nops, txCount, dropCount, replyLost, late, sendErr,
                 ackSeen, nackSeen, nackHit, txAtNack, processed>>
  /\ UNCHANGED <<srvUnchanged, sent>>

\* _send_reliable: ACK_TIMEOUT has passed when the wait loop tests the clock
\* (the entry was there at the last poll, up to 0.1 s earlier); the retry
\* counter goes up and the loop condition is tested. The timeout is real time:
\* it may fire while the frame, its handling or the reply is still under way
\* (at most MaxLate times in a call).
Timeout ==
  /\ cpc = "wait"
  /\ InFlight => late < MaxLate
  /\ retries' = retries + 1
  /\ cpc' = IF retry_allowed(retries + 1) THEN "send" ELSE "giveup"
  /\ late' = IF InFlight THEN late + 1 ELSE late
  /\ UNCHANGED <<cli_sock, cli_username, cli_sequence_num, pending_acks, cli_connected,
                 cli_running, cop, cmsg, cret, rpc, c2s, nops, txCount,
                 dropCount, replyLost, sendErr, ackSeen, nackSeen, nackHit, txAtNack, processed>>
  /\ UNCHANGED <<srvUnchanged, peerClosed, sent>>

\* The exit after the loop reporting success.
GiveUp_reports_success ==
  /\ cpc = "giveup"
  /\ pending_acks' = pending_acks \ {cmsg.seq}
  /\ return(TRUE, cli_connected)
  /\ UNCHANGED <<cli_username, cli_sequence_num, cop, cmsg, retries, rpc,
                 c2s, nops, txCount, dropCount, replyLost, late, sendErr,
                 ackSeen, nackSeen, nackHit, txAtNack, processed>>
  /\ UNCHANGED <<srvUnchanged, sent>>

\* _send_reliable: after the loop the entry is deleted and False is returned.
GiveUp ==
  /\ cpc = "giveup"
  /\ pending_acks' = pending_acks \ {cmsg.seq}
  /\ return(FALSE, cli_connected)
  /\ UNCHANGED <<cli_username, cli_sequence_num, cop, cmsg, retries, rpc,
                 c2s, nops, txCount, dropCount, replyLost, late, sendErr,
                 ackSeen, nackSeen, nackHit, txAtNack, processed>>
  /\ UNCHANGED <<srvUnchanged, sent>>

\* disconnect() called by the user: a DISCONNECT is sent without reliability
\* if the client is connected, then the socket is closed.
Disconnect ==
  /\ cpc = "idle"
  /\ cli_sock = "open"
  /\ nops < MaxOps
  /\ nops' = nops + 1
  /\ cop' = "disconnect"
  /\ IF cli_connected
     THEN /\ \E out \in CliSendOutcomes :
               _send_message(disconnect_message(cli_username, cli_sequence_num, CliSess), out)
          /\ cli_sequence_num' = cli_sequence_num + 1
     ELSE UNCHANGED <<c2s, cli_sequence_num>>
  /\ cli_connected' = FALSE
  /\ close_socket
  /\ UNCHANGED <<cli_username, pending_acks, cpc, cmsg, retries, cret, rpc,
                 txCount, dropCount, replyLost, late, sendErr, ackSeen, nackSeen, nackHit,
                 txAtNack, processed>>
  /\ UNCHANGED <<srvUnchanged, sent>>

\* _handle_ack / _handle_nack: the entry named by ack_for / nack_for is
\* deleted under ack_lock if it is there.
\* The handler that empties the table.
_handle_ack_all(m) == pending_acks' = {}

_handle_ack(m) == pending_acks' = pending_acks \ {m.ref}

\* NACK m arrives while _send_reliable waits on the entry it names.
NackHits(m) ==
  m.type = "NACK" /\ cpc = "wait" /\ m.ref = cmsg.seq /\ m.ref \in pending_acks

\* _handle_received_message
_handle_received_message(m) ==
  IF m.type \in AckTypes \cup {"NACK"}
  THEN /\ _handle_ack(m)
       /\ ackSeen' = (ackSeen \/ (m.type # "NACK" /\ InCall /\ m.ref = cmsg.seq))
       /\ nackSeen' = (nackSeen \/ (m.type = "NACK" /\ InCall /\ m.ref = cmsg.seq))
       /\ nackHit' = (nackHit \/ NackHits(m))
       /\ txAtNack' = IF NackHits(m) THEN txCount ELSE txAtNack
       /\ UNCHANGED <<c2s, cli_connected>>
  ELSE IF m.type \in {"CHAT_MSG", "BROADCAST", "PRIVATE_MSG", "HEARTBEAT"}
  THEN /\ \E out \in CliSendOutcomes :
            /\ _send_message(create_ack(m), out)
            /\ cli_connected' = IF out = "error" THEN FALSE ELSE cli_connected
       /\ UNCHANGED <<pending_acks, ackSeen, nackSeen, nackHit, txAtNack>>
  ELSE UNCHANGED <<pending_acks, ackSeen, nackSeen, nackHit, txAtNack, c2s, cli_connected>>

\* _receive_loop: _receive_message returns the next frame, which is handled.
CliRecv ==
  /\ rpc = "recv"
  /\ cli_sock = "open"
  /\ sent[CliSess] # <<>>
  /\ sent' = [sent EXCEPT ![CliSess] = Tail(@)]
  /\ _handle_received_message(Head(sent[CliSess]))
  /\ UNCHANGED <<cli_sock, cli_username, cli_sequence_num, cli_running, cpc, cop, cmsg,
                 retries, cret, rpc, nops, txCount, dropCount, replyLost, late, sendErr,
                 processed>>
  /\ UNCHANGED <<srvUnchanged, peerClosed>>

\* _receive_loop: _receive_message returns None or raises (the client closed
\* the socket, or the server closed the connection and nothing is left to
\* read) and the loop is left.
CliRecvEnd ==
  /\ rpc = "recv"
  /\ \/ cli_sock = "closed"
     \/ ~sockOpen[CliSess] /\ sent[CliSess] = <<>>
  /\ rpc' = "exit"
  /\ cli_connected' = FALSE
  /\ cli_running' = FALSE
  /\ UNCHANGED <<cli_sock, cli_username, cli_sequence_num, pending_acks, cpc, cop, cmsg,
                 retries, cret, c2s, nops, txCount, dropCount, replyLost,
                 late, sendErr, ackSeen, nackSeen, nackHit, txAtNack, processed>>
  /\ UNCHANGED <<srvUnchanged, peerClosed, sent>>

\* ------------------------------------------------- transport (SpecClient)
\* The transport silently drops the next frame on its way to the client.
DropReply ==
  /\ sent[CliSess] # <<>>
  /\ sent' = [sent EXCEPT ![CliSess] = Tail(@)]
  /\ replyLost' = (replyLost \/ InCall)
  /\ UNCHANGED <<cli_sock, cli_username, cli_sequence_num, pending_acks, cli_connected,
                 cli_running, cpc, cop, cmsg, retries, cret, rpc, c2s, nops, txCount,
                 dropCount, late, sendErr, ackSeen, nackSeen, nackHit, txAtNack, processed>>
  /\ UNCHANGED <<srvUnchanged, peerClosed>>

\* The accept loop takes the client's connection.
CliAccept ==
  /\ cli_sock # "none"
  /\ next_client_id = CliSess
  /\ Accept

\* The handler of the client's session takes the next frame the transport
\* delivers.
SrvRecv ==
  /\ c2s # <<>>
  /\ Receive(CliSess, Head(c2s))
  /\ c2s' = Tail(c2s)
  /\ processed' = processed \cup {Head(c2s)}
  /\ UNCHANGED <<cli_sock, cli_username, cli_sequence_num, pending_acks, cli_connected,
                 cli_running, cpc, cop, cmsg, retries, cret, rpc, nops,
                 txCount, dropCount, replyLost, late, sendErr, ackSeen, nackSeen, nackHit,
                 txAtNack, nframes, peer_seq, gvars, kvars, jvars, mrest, ovars>>

\* The handler of the client's session reads end of stream.
SrvReadFail ==
  /\ c2s = <<>>
  /\ ReadFail(CliSess)
  /\ UNCHANGED <<nframes, cvars, avars>>

\* The server as the client finds it: session 1 is registered as "bob", its
\* handler blocked in _receive_message after the CONNECT it answered.
InitPeer ==
  /\ clients = {1}
  /\ next_client_id = CliSess
  /\ username_to_client = [u \in Names |-> IF u = "bob" THEN 1 ELSE NoSession]
  /\ srv_sequence_num = 1
  /\ running = TRUE
  /\ username = [c \in Sessions |-> IF c = 1 THEN "bob" ELSE NoName]
  /\ connected = [c \in Sessions |-> TRUE]
  /\ sockOpen = [c \in Sessions |-> TRUE]
  /\ peerClosed = [c \in Sessions |-> FALSE]
  /\ sent = [c \in Sessions |->
               IF c = 1 THEN <<create_ack(connect_message("bob", 0, 1))>> ELSE <<>>]
  /\ hpc = [c \in Sessions |-> IF c = 1 THEN "recv" ELSE "none"]
  /\ hmsg = [c \in Sessions |-> IF c = 1 THEN connect_message("bob", 0, 1) ELSE NoMsg]
  /\ hout = [c \in Sessions |-> IF c = 1 THEN notice_message("bob", "joined", 0) ELSE NoMsg]
  /\ hlist = [c \in Sessions |-> <<>>]
  /\ hafter = [c \in Sessions |-> "loop"]
  /\ hrcpt = [c \in Sessions |-> NoSession]
  /\ mark = [c \in Sessions |-> 0]
  /\ quiet = [c \in Sessions |-> FALSE]
  /\ peer_seq = [c \in Sessions |-> IF c = 1 THEN 1 ELSE 0]
  /\ nframes = 1

InitSpecClient == InitPeer /\ InitClient /\ InitAux

NextClient ==
  \/ \E u \in Names : Connect(u)
  \/ \E kind \in {"chat", "broadcast"} : SendOp(kind, NoName)
  \/ \E r \in Names : SendOp("private", r)
  \/ SendStep
  \/ RegStep
  \/ PollHit
  \/ Timeout
  \/ GiveUp
  \/ Disconnect
  \/ CliRecv
  \/ CliRecvEnd
  \/ DropReply
  \/ CliAccept
  \/ SrvRecv
  \/ SrvReadFail
  \/ Handler(CliSess)

SpecClient == InitSpecClient /\ [][NextClient]_vars

\* The client and a server that may be stopped at any moment.
NextClientCut == NextClient \/ stop

SpecClientCut == InitSpecClient /\ [][NextClientCut]_vars

\* ------------------------------------- several caller threads (SpecCallers)
\* What the client's other fields and the server keep while the threads of
\* SpecCallers run.
callersRest ==
  <<svars, cli_sock, cli_username, cli_connected, cli_running, cpc, cop, cmsg, retries,
    cret, rpc, c2s, nops, txCount, dropCount, replyLost, sendErr, ackSeen, nackSeen,
    nackHit, txAtNack, processed, gvars, kvars, jvars, mvars, lvars, dvars>>

callersUnchanged == <<callersRest, late>>

\* One call of socket.send inside sendall: the bytes it accepted, as the whole
\* frame, its head or its tail.
chunk(m, part) == [frame |-> m, part |-> part]

\* sendall(length_prefix + data) starts with a call of send(), which takes
\* the whole frame, or only its head when the socket's buffer is nearly full;
\* sendall then calls send() again for the rest.
first_send == {"whole", "head"}

\* The bytes of frames on the wire are not mixed at position i: a head is
\* followed by the tail of the same frame, and a tail follows such a head.
Unmixed(i) ==
  /\ wire[i].part = "head" =>
       (i < Len(wire) => (wire[i + 1].part = "tail" /\ wire[i + 1].frame = wire[i].frame))
  /\ wire[i].part = "tail" =>
       (i > 1 /\ wire[i - 1].part = "head" /\ wire[i - 1].frame = wire[i].frame)

\* The bytes of two frames are mixed somewhere on the wire.
Mixed == \E i \in 1..Len(wire) : ~Unmixed(i)

\* send() puts the bytes it accepted on the socket (what follows mixed bytes
\* is not told apart any more).
send(m, part) == wire' = IF Mixed THEN wire ELSE Append(wire, chunk(m, part))

\* A thread calls send_chat_message or send_broadcast on the connected client:
\* the message takes the next sequence number and _send_reliable is entered.
CallStart(t) ==
  /\ callpc[t] = "idle"
  /\ ncalls[t] < MaxOps
  /\ cli_connected
  /\ ncalls' = [ncalls EXCEPT ![t] = @ + 1]
  /\ \E kind \in {"chat", "broadcast"} :
       callmsg' = [callmsg EXCEPT ![t] = op_message(kind, NoName)]
  /\ cli_sequence_num' = cli_sequence_num + 1
  /\ callretries' = [callretries EXCEPT ![t] = 0]
  /\ callpc' = [callpc EXCEPT ![t] = "send"]
  /\ UNCHANGED <<callret, wire, inbox, recvpc, recvmsg, npushed, ackCase, pending_acks,
                 callersUnchanged>>

\* _send_reliable: _send_message(message) at the head of a turn of the loop.
CallSend(t) ==
  /\ callpc[t] = "send"
  /\ \E part \in first_send :
       /\ send(callmsg[t], part)
       /\ callpc' = [callpc EXCEPT ![t] = IF part = "whole" THEN "reg" ELSE "write"]
  /\ UNCHANGED <<callmsg, callretries, callret, ncalls, inbox, recvpc, recvmsg,
                 npushed, ackCase, pending_acks, cli_sequence_num, callersUnchanged>>

\* sendall of a caller hands the rest of its frame to send().
CallWrite(t) ==
  /\ callpc[t] = "write"
  /\ send(callmsg[t], "tail")
  /\ callpc' = [callpc EXCEPT ![t] = "reg"]
  /\ UNCHANGED <<callmsg, callretries, callret, ncalls, inbox, recvpc, recvmsg,
                 npushed, ackCase, pending_acks, cli_sequence_num, callersUnchanged>>

\* _send_reliable: the pending entry is recorded under ack_lock.
CallReg(t) ==
  /\ callpc[t] = "reg"
  /\ pending_acks' = pending_acks \cup {callmsg[t].seq}
  /\ callpc' = [callpc EXCEPT ![t] = "wait"]
  /\ UNCHANGED <<callmsg, callretries, callret, ncalls, wire, inbox, recvpc, recvmsg,
                 npushed, ackCase, cli_sequence_num, callersUnchanged>>

\* _send_reliable: the wait loop finds the entry gone and returns True.
CallPoll(t) ==
  /\ callpc[t] = "wait"
  /\ callmsg[t].seq \notin pending_acks
  /\ callret' = [callret EXCEPT ![t] = "True"]
  /\ callpc' = [callpc EXCEPT ![t] = "idle"]
  /\ UNCHANGED <<callmsg, callretries, ncalls, wire, inbox, recvpc, recvmsg,
                 npushed, ackCase, pending_acks, cli_sequence_num, callersUnchanged>>

\* The chunks at the front of the wire that make up one frame: 0 when the
\* frame is not complete yet, or when the bytes of two frames are mixed there
\* and the reader finds no frame any more.
FrontLen ==
  IF wire = <<>> THEN 0
  ELSE IF wire[1].part = "whole" THEN 1
  ELSE IF /\ Len(wire) >= 2
          /\ wire[1].part = "head"
          /\ wire[2].part = "tail"
          /\ wire[2].frame = wire[1].frame THEN 2
  ELSE 0

\* A copy of t's message is on its way to a server that still reads, or an
\* answer to it is on its way back.
ReplyUnderWay(t) ==
  \/ ~Mixed /\ \E i \in 1..Len(wire) : wire[i].frame = callmsg[t]
  \/ callpc[t] = "write"
  \/ \E i \in 1..Len(inbox) : inbox[i].ref = callmsg[t].seq

\* _send_reliable: ACK_TIMEOUT has passed; the retry counter goes up and the
\* loop condition is tested. The timeout is real time: it may fire while the
\* reply is still under way (at most MaxLate times in all).
CallTimeout(t) ==
  /\ callpc[t] = "wait"
  /\ ReplyUnderWay(t) => late < MaxLate
  /\ late' = IF ReplyUnderWay(t) THEN late + 1 ELSE late
  /\ callretries' = [callretries EXCEPT ![t] = @ + 1]
  /\ callpc' = [callpc EXCEPT ![t] =
                  IF retry_allowed(callretries[t] + 1) THEN "send" ELSE "giveup"]
  /\ UNCHANGED <<callmsg, callret, ncalls, wire, inbox, recvpc, recvmsg,
                 npushed, ackCase, pending_acks, cli_sequence_num, callersRest>>

\* _send_reliable: after the loop the entry is deleted and False is returned.
CallGiveUp(t) ==
  /\ callpc[t] = "giveup"
  /\ pending_acks' = pending_acks \ {callmsg[t].seq}
  /\ callret' = [callret EXCEPT ![t] = "False"]
  /\ callpc' = [callpc EXCEPT ![t] = "idle"]
  /\ UNCHANGED <<callmsg, callretries, ncalls, wire, inbox, recvpc, recvmsg,
                 npushed, ackCase, cli_sequence_num, callersUnchanged>>

\* _receive_loop: the next frame is handled. An ACK or NACK removes the entry
\* it names; a CHAT_MSG, BROADCAST, PRIVATE_MSG or HEARTBEAT is answered with
\* _send_message(message.create_ack()).
RecvTake ==
  /\ recvpc = "recv"
  /\ inbox # <<>>
  /\ inbox' = Tail(inbox)
  /\ LET m == Head(inbox) IN
       IF m.type \in AckTypes \cup {"NACK"}
       THEN /\ _handle_ack(m)
            /\ ackCase' = IF m.ref \notin pending_acks THEN "absent"
                          ELSE IF pending_acks = {m.ref} THEN "alone"
                          ELSE "among"
            /\ UNCHANGED <<wire, recvpc, recvmsg>>
       ELSE IF m.type \in {"CHAT_MSG", "BROADCAST", "PRIVATE_MSG", "HEARTBEAT"}
       THEN /\ recvmsg' = create_ack(m)
            /\ \E part \in first_send :
                 /\ send(create_ack(m), part)
                 /\ recvpc' = IF part = "whole" THEN "recv" ELSE "write"
            /\ UNCHANGED <<pending_acks, ackCase>>
       ELSE UNCHANGED <<wire, recvpc, recvmsg, pending_acks, ackCase>>
  /\ UNCHANGED <<callpc, callmsg, callretries, callret, ncalls, npushed,
                 cli_sequence_num, callersUnchanged>>

\* sendall of the receive thread hands the rest of its ACK to send().
RecvWrite ==
  /\ recvpc = "write"
  /\ send(recvmsg, "tail")
  /\ recvpc' = "recv"
  /\ UNCHANGED <<callpc, callmsg, callretries, callret, ncalls, inbox, recvmsg,
                 npushed, ackCase, pending_acks, cli_sequence_num, callersUnchanged>>

\* The server's handler reads the next frame of the client from the socket
\* and handles it: a request is answered with create_ack, an ACK with nothing.
PeerRead ==
  /\ FrontLen > 0
  /\ wire' = SubSeq(wire, FrontLen + 1, Len(wire))
  /\ inbox' = IF wire[1].frame.type \in {"CHAT_MSG", "BROADCAST"}
              THEN Append(inbox, create_ack(wire[1].frame))
              ELSE inbox
  /\ UNCHANGED <<callpc, callmsg, callretries, callret, ncalls, recvpc, recvmsg,
                 npushed, ackCase, pending_acks, cli_sequence_num, callersUnchanged>>

\* The server relays another user's broadcast to the client.
PeerPush ==
  /\ npushed < MaxPush
  /\ npushed' = npushed + 1
  /\ inbox' = Append(inbox, broadcast_message("bob", npushed, 1))
  /\ UNCHANGED <<callpc, callmsg, callretries, callret, ncalls, wire, recvpc, recvmsg,
                 ackCase, pending_acks, cli_sequence_num, callersUnchanged>>

\* The client after connect("alice") has returned True: the socket is open,
\* the receive thread runs, the CONNECT took sequence number 0 and its entry
\* is gone.
InitConnected ==
  /\ cli_sock = "open"
  /\ cli_username = "alice"
  /\ cli_sequence_num = 1
  /\ pending_acks = {}
  /\ cli_connected = TRUE
  /\ cli_running = TRUE
  /\ cpc = "idle"
  /\ cop = "connect"
  /\ cmsg = connect_message("alice", 0, CliSess)
  /\ retries = 0
  /\ cret = TRUE
  /\ rpc = "recv"
  /\ c2s = <<>>
  /\ nops = 0
  /\ txCount = 1
  /\ dropCount = 0
  /\ replyLost = FALSE
  /\ late = 0
  /\ sendErr = FALSE
  /\ ackSeen = TRUE
  /\ nackSeen = FALSE
  /\ nackHit = FALSE
  /\ txAtNack = 0
  /\ processed = {}

InitSpecCallers == InitServer /\ InitConnected /\ InitAux

NextCallers ==
  \/ \E t \in Callers : CallStart(t)
  \/ \E t \in Callers : CallSend(t)
  \/ \E t \in Callers : CallWrite(t)
  \/ \E t \in Callers : CallReg(t)
  \/ \E t \in Callers : CallPoll(t)
  \/ \E t \in Callers : CallTimeout(t)
  \/ \E t \in Callers : CallGiveUp(t)
  \/ RecvTake
  \/ RecvWrite
  \/ PeerRead
  \/ PeerPush

SpecCallers == InitSpecCallers /\ [][NextCallers]_vars

\* The scheduler lets the caller's thread run: a step of _send_reliable that
\* can be taken is taken, and the clock reaches ACK_TIMEOUT.
CallerStep == SendStep \/ RegStep \/ PollHit \/ Timeout \/ GiveUp

\* The server's threads and the client's receive thread run, and a frame on
\* the wire is delivered or lost.
PipelineStep ==
  CliAccept \/ SrvRecv \/ Handler(CliSess) \/ CliRecv \/ DropReply

SpecClientFair == SpecClient /\ WF_vars(CallerStep) /\ WF_vars(PipelineStep)

\* ------------------------------------------------- the codec (protocol.py)
\* Bytes are numbers 0..255 and a frame is a sequence of bytes. A message of
\* the codec is a record [msg_type, sequence_num, timestamp, payload], its
\* payload a sequence of entries [key, val] in dict order, a key a sequence
\* of ASCII codes, a value [kind |-> "str", v |-> codes] or
\* [kind |-> "int", v |-> number].

VERSION == 1
HEADER_SIZE == 24

\* class MessageType(IntEnum)
MessageType ==
  [CONNECT |-> 1, CONNECT_ACK |-> 2, DISCONNECT |-> 3, CHAT_MSG |-> 4, CHAT_ACK |-> 5,
   BROADCAST |-> 6, BROADCAST_ACK |-> 7, PRIVATE_MSG |-> 8, PRIVATE_ACK |-> 9,
   NACK |-> 10, ERROR |-> 11, HEARTBEAT |-> 12, HEARTBEAT_ACK |-> 13]

TypeNames == DOMAIN MessageType

\* ProtocolMessage.__init__: a timestamp of None or 0 is replaced by the clock.
ProtocolMessage(t, s, p, ts, now) ==
  [msg_type |-> t, sequence_num |-> s, timestamp |-> IF ts = 0 THEN now ELSE ts,
   payload |-> p]

RECURSIVE pack_be(_, _)
\* struct.pack of an unsigned field of w bytes in network byte order.
pack_be(n, w) == IF w = 0 THEN <<>> ELSE pack_be(n \div 256, w - 1) \o <<n % 256>>

RECURSIVE unpack_be(_)
\* struct.unpack of an unsigned field in network byte order.
unpack_be(b) ==
  IF b = <<>> THEN 0 ELSE unpack_be(SubSeq(b, 1, Len(b) - 1)) * 256 + b[Len(b)]

RECURSIVE Flatten(_)
Flatten(ss) == IF ss = <<>> THEN <<>> ELSE Head(ss) \o Flatten(Tail(ss))

RECURSIVE digits(_)
\* The decimal digits of a natural number, as ASCII codes.
digits(n) == IF n < 10 THEN <<48 + n>> ELSE digits(n \div 10) \o <<48 + (n % 10)>>

\* The string between quotes with nothing escaped.
json_string_raw(str) == <<34>> \o str \o <<34>>

\* json.dumps of a string: quotes, with " and \ escaped by a backslash.
json_string(str) ==
  <<34>> \o Flatten([i \in 1..Len(str) |->
                       IF str[i] \in {34, 92} THEN <<92, str[i]>> ELSE <<str[i]>>])
         \o <<34>>

json_value(v) ==
  IF v.kind = "str" THEN json_string(v.v)
  ELSE IF v.v < 0 THEN <<45>> \o digits(0 - v.v) ELSE digits(v.v)

\* json.dumps(payload).encode('utf-8') for a payload of ASCII strings and
\* integers: {"k": v, "k": v} with the default separators.
json_dumps(p) ==
  <<123>>
  \o Flatten([i \in 1..Len(p) |->
                (IF i > 1 THEN <<44, 32>> ELSE <<>>)
                \o json_string(p[i].key) \o <<58, 32>> \o json_value(p[i].val)])
  \o <<125>>

Fail == [ok |-> FALSE]

RECURSIVE skip_ws(_, _)
\* The decoder's whitespace skipping: the first position at or after i that
\* holds no space.
skip_ws(b, i) == IF i <= Len(b) /\ b[i] = 32 THEN skip_ws(b, i + 1) ELSE i

RECURSIVE scan_string(_, _, _)
\* The decoder inside a string, after its opening quote: reads up to the
\* closing quote and undoes the escapes. A control character, a byte that is
\* not ASCII or an escape other than \" and \\ is outside the modelled
\* alphabet and is refused.
scan_string(b, i, acc) ==
  IF i > Len(b) THEN Fail
  ELSE IF b[i] = 34 THEN [ok |-> TRUE, val |-> acc, next |-> i + 1]
  ELSE IF b[i] = 92
    THEN IF i + 1 <= Len(b) /\ b[i + 1] \in {34, 92}
           THEN scan_string(b, i + 2, Append(acc, b[i + 1]))
           ELSE Fail
  ELSE IF b[i] < 32 \/ b[i] > 127 THEN Fail
  ELSE scan_string(b, i + 1, Append(acc, b[i]))

RECURSIVE scan_digits(_, _, _)
scan_digits(b, i, acc) ==
  IF i <= Len(b) /\ b[i] \in 48..57
    THEN scan_digits(b, i + 1, acc * 10 + (b[i] - 48))
    ELSE [ok |-> TRUE, val |-> acc, next |-> i]

\* The decoder at a value: a string or an integer.
scan_value(b, i) ==
  IF i > Len(b) THEN Fail
  ELSE IF b[i] = 34
    THEN LET r == scan_string(b, i + 1, <<>>)
         IN IF r.ok THEN [ok |-> TRUE, val |-> [kind |-> "str", v |-> r.val], next |-> r.next]
            ELSE Fail
  ELSE IF b[i] = 45
    THEN IF i + 1 <= Len(b) /\ b[i + 1] \in 48..57
           THEN LET r == scan_digits(b, i + 1, 0)
                IN [ok |-> TRUE, val |-> [kind |-> "int", v |-> 0 - r.val], next |-> r.next]
           ELSE Fail
  ELSE IF b[i] \in 48..57
    THEN LET r == scan_digits(b, i, 0)
         IN [ok |-> TRUE, val |-> [kind |-> "int", v |-> r.val], next |-> r.next]
  ELSE Fail

RECURSIVE scan_entries(_, _, _)
\* The decoder inside an object, at a key: "key" : value, then , or }.
scan_entries(b, i, acc) ==
  IF i > Len(b) \/ b[i] # 34 THEN Fail
  ELSE LET k == scan_string(b, i + 1, <<>>)
       IN IF ~k.ok THEN Fail
          ELSE LET j == skip_ws(b, k.next)
               IN IF j > Len(b) \/ b[j] # 58 THEN Fail
                  ELSE LET v == scan_value(b, skip_ws(b, j + 1))
                       IN IF ~v.ok THEN Fail
                          ELSE LET e == skip_ws(b, v.next)
                                   more == Append(acc, [key |-> k.val, val |-> v.val])
                               IN IF e > Len(b) THEN Fail
                                  ELSE IF b[e] = 125
                                    THEN [ok |-> TRUE, val |-> more, next |-> e + 1]
                                  ELSE IF b[e] = 44
                                    THEN scan_entries(b, skip_ws(b, e + 1), more)
                                  ELSE Fail

\* json.loads(payload_bytes.decode('utf-8')) for an object of strings and
\* integers; the whole text must be consumed.
json_loads(b) ==
  LET i == skip_ws(b, 1)
  IN IF i > Len(b) \/ b[i] # 123 THEN Fail
     ELSE LET j == skip_ws(b, i + 1)
              r == IF j <= Len(b) /\ b[j] = 125
                     THEN [ok |-> TRUE, val |-> <<>>, next |-> j + 1]
                     ELSE scan_entries(b, j, <<>>)
          IN IF r.ok /\ skip_ws(b, r.next) = Len(b) + 1 THEN r ELSE Fail

RECURSIVE _calculate_checksum(_)
\* The first four bytes of the MD5 digest of the payload bytes, read as an
\* unsigned number. The digest is modelled by a polynomial hash of the bytes
\* (a function of every byte and its position), not by MD5 itself.
_calculate_checksum(b) ==
  IF b = <<>> THEN 7
  ELSE (_calculate_checksum(SubSeq(b, 1, Len(b) - 1)) * 31 + b[Len(b)] + 1) % 65521

\* ProtocolMessage.serialize: header '!BBIQIIH' followed by the payload bytes.
serialize(m) ==
  LET payload_bytes == json_dumps(m.payload)
  IN <<VERSION, MessageType[m.msg_type]>>
     \o pack_be(m.sequence_num, 4)
     \o pack_be(m.timestamp, 8)
     \o pack_be(Len(payload_bytes), 4)
     \o pack_be(_calculate_checksum(payload_bytes), 4)
     \o pack_be(0, 2)
     \o payload_bytes

\* The fields of a header of at least 24 bytes.
header_data(data) ==
  [version |-> data[1], msg_type |-> data[2],
   seq_num |-> unpack_be(SubSeq(data, 3, 6)),
   timestamp |-> unpack_be(SubSeq(data, 7, 14)),
   payload_len |-> unpack_be(SubSeq(data, 15, 18)),
   checksum |-> unpack_be(SubSeq(data, 19, 22))]

\* deserialize without the comparison of the checksums.
deserialize_unverified(data, now) ==
  IF Len(data) < HEADER_SIZE THEN None
  ELSE LET h == header_data(data)
           payload_end == HEADER_SIZE + h.payload_len
       IN IF h.version # VERSION THEN None
          ELSE IF Len(data) < payload_end THEN None
          ELSE LET parsed == json_loads(SubSeq(data, HEADER_SIZE + 1, payload_end))
               IN IF ~parsed.ok THEN None
                  ELSE IF \A t \in TypeNames : MessageType[t] # h.msg_type THEN Raised
                  ELSE ProtocolMessage(CHOOSE t \in TypeNames : MessageType[t] = h.msg_type,
                                       h.seq_num, parsed.val, h.timestamp, now)

\* ProtocolMessage.deserialize at clock value now: None for a short input, a
\* foreign version, a payload that is not all there, a checksum mismatch or
\* an undecodable payload; MessageType(msg_type) raises for an unknown type.
deserialize(data, now) ==
  IF Len(data) < HEADER_SIZE THEN None
  ELSE LET h == header_data(data)
           payload_end == HEADER_SIZE + h.payload_len
       IN IF h.version # VERSION THEN None
          ELSE IF Len(data) < payload_end THEN None
          ELSE LET payload_bytes == SubSeq(data, HEADER_SIZE + 1, payload_end)
                   parsed == json_loads(payload_bytes)
               IN IF _calculate_checksum(payload_bytes) # h.checksum THEN None
                  ELSE IF ~parsed.ok THEN None
                  ELSE IF \A t \in TypeNames : MessageType[t] # h.msg_type THEN Raised
                  ELSE ProtocolMessage(CHOOSE t \in TypeNames : MessageType[t] = h.msg_type,
                                       h.seq_num, parsed.val, h.timestamp, now)

\* The keys and values of the payload maps handed to the codec: the keys
\* "u", "ms" and "to"; the strings "" and h"\ and the integers 0 and -12.
PayloadKeys == {<<117>>, <<109, 115>>, <<116, 111>>}
PayloadValues ==
  {[kind |-> "str", v |-> <<>>], [kind |-> "str", v |-> <<104, 34, 92>>],
   [kind |-> "int", v |-> 0], [kind |-> "int", v |-> 0 - 12]}

Payloads ==
  {p \in UNION {[1..n -> [key : PayloadKeys, val : PayloadValues]] : n \in 0..MaxEntries} :
     \A i, j \in 1..Len(p) : p[i].key = p[j].key => i = j}

\* Sequence numbers that fill no, every and all but the top bit of the
\* 4-byte field; timestamps given to the constructor (0: none given).
SequenceNumbers == {0, 16909060, 2147483647}
Timestamps == {0, 5}
Clocks == {258}
\* Reasons handed to create_nack: the server's "Username already taken", and
\* the string "no".
Reasons ==
  {<<85, 115, 101, 114, 110, 97, 109, 101, 32, 97, 108, 114, 101, 97, 100, 121, 32, 116, 97, 107, 101, 110>>,
   <<110, 111>>}

\* The payload keys and status values of the acknowledgements, as ASCII codes.
k_ack_for == <<97, 99, 107, 95, 102, 111, 114>>
k_nack_for == <<110, 97, 99, 107, 95, 102, 111, 114>>
k_status == <<115, 116, 97, 116, 117, 115>>
k_reason == <<114, 101, 97, 115, 111, 110>>
v_success == <<115, 117, 99, 99, 101, 115, 115>>
v_failure == <<102, 97, 105, 108, 117, 114, 101>>

\* create_ack answering every message with a CHAT_ACK.
create_ack_message_unmapped(m, now) ==
  ProtocolMessage("CHAT_ACK", m.sequence_num,
                  <<[key |-> k_ack_for, val |-> [kind |-> "int", v |-> m.sequence_num]],
                    [key |-> k_status, val |-> [kind |-> "str", v |-> v_success]]>>,
                  0, now)

\* ProtocolMessage.create_ack, with its payload map.
create_ack_message(m, now) ==
  ProtocolMessage(ack_type_map(m.msg_type), m.sequence_num,
                  <<[key |-> k_ack_for, val |-> [kind |-> "int", v |-> m.sequence_num]],
                    [key |-> k_status, val |-> [kind |-> "str", v |-> v_success]]>>,
                  0, now)

\* ProtocolMessage.create_nack, with its payload map.
create_nack_message(m, reason, now) ==
  ProtocolMessage("NACK", m.sequence_num,
                  <<[key |-> k_nack_for, val |-> [kind |-> "int", v |-> m.sequence_num]],
                    [key |-> k_reason, val |-> [kind |-> "str", v |-> reason]],
                    [key |-> k_status, val |-> [kind |-> "str", v |-> v_failure]]>>,
                  0, now)

\* What can happen to a frame on its way: nothing, or it arrives cut below
\* the header size, with another version byte, with its last payload byte
\* missing, with a larger length field, with another checksum field, or with
\* one payload byte changed (all bits, or the lowest bit).
xor_byte(b, mask) == IF mask = 255 THEN 255 - b ELSE IF b % 2 = 0 THEN b + 1 ELSE b - 1

set_bytes(d, at, bytes) ==
  [i \in 1..Len(d) |-> IF i \in at..(at + Len(bytes) - 1) THEN bytes[i - at + 1] ELSE d[i]]

Faulted(d) ==
  {[fault |-> "none", data |-> d]}
  \cup {[fault |-> "short", data |-> SubSeq(d, 1, n)] : n \in {0, 1, HEADER_SIZE - 1}}
  \cup {[fault |-> "version", data |-> set_bytes(d, 1, <<v>>)] : v \in {0, 2}}
  \cup {[fault |-> "length", data |-> SubSeq(d, 1, Len(d) - 1)]}
  \cup {[fault |-> "length",
         data |-> set_bytes(d, 15, pack_be(header_data(d).payload_len + 1, 4))]}
  \cup {[fault |-> "checksum",
         data |-> set_bytes(d, 19, pack_be(header_data(d).checksum + 1, 4))]}
  \cup {[fault |-> "flip", data |-> set_bytes(d, i, <<xor_byte(d[i], mask)>>)] :
          i \in (HEADER_SIZE + 1)..Len(d), mask \in {1, 255}}

\* The sender serializes its message.
Serialize ==
  /\ kpc = "new"
  /\ kpc' = "encoded"
  /\ kdata' = serialize(kmsg)
  /\ UNCHANGED <<kmsg, kclock, kfault, kout, kreply, kreason, gvars, jvars, mvars, ovars, svars, cvars>>

\* The frame travels.
Travel ==
  /\ kpc = "encoded"
  /\ kfault = "none"
  /\ \E f \in Faulted(kdata) :
       /\ f.fault # "none"
       /\ kfault' = f.fault
       /\ kdata' = f.data
  /\ UNCHANGED <<kmsg, kclock, kpc, kout, kreply, kreason, gvars, jvars, mvars, ovars, svars, cvars>>

\* The receiver hands the bytes to deserialize, later on the clock.
Deserialize ==
  /\ kpc = "encoded"
  /\ kpc' = "decoded"
  /\ kclock' = kclock + 1
  /\ kout' = deserialize(kdata, kclock')
  /\ UNCHANGED <<kmsg, kdata, kfault, kreply, kreason, gvars, jvars, mvars, ovars, svars, cvars>>

\* The receiver of the message builds its acknowledgement.
CreateAck ==
  /\ kpc = "new"
  /\ kpc' = "replied"
  /\ kclock' = kclock + 1
  /\ kreply' = create_ack_message(kmsg, kclock')
  /\ UNCHANGED <<kmsg, kdata, kfault, kout, kreason, gvars, jvars, mvars, ovars, svars, cvars>>

\* The receiver of the message builds a negative acknowledgement.
CreateNack ==
  /\ kpc = "new"
  /\ kpc' = "replied"
  /\ kclock' = kclock + 1
  /\ \E r \in Reasons :
       /\ kreason' = r
       /\ kreply' = create_nack_message(kmsg, r, kclock')
  /\ UNCHANGED <<kmsg, kdata, kfault, kout, gvars, jvars, mvars, ovars, svars, cvars>>

\* A message of any type, with any of the payloads, has been constructed.
InitCodec ==
  /\ kclock \in Clocks
  /\ kmsg \in {ProtocolMessage(t, n, p, ts, kclock) :
                 t \in TypeNames, n \in SequenceNumbers, p \in Payloads, ts \in Timestamps}
  /\ kpc = "new"
  /\ kdata = <<>>
  /\ kfault = "none"
  /\ kout = None
  /\ kreply = None
  /\ kreason = <<>>

NextCodec == Serialize \/ Travel \/ Deserialize \/ CreateAck \/ CreateNack

InitSpecCodec ==
  InitServer /\ InitClient /\ InitSeq /\ InitJoin /\ InitMonitor /\ InitCallers /\ InitLocks
             /\ InitPaths /\ InitCodec

SpecCodec == InitSpecCodec /\ [][NextCodec]_vars

\* C13: taking a message of any type, sequence number and timestamp, with any
\* of the payload maps, through serialize and then deserialize gives a message
\* with the same type, sequence number, timestamp and payload.
C13_RoundTrip ==
  (kpc = "decoded" /\ kfault = "none") =>
    /\ kout.msg_type = kmsg.msg_type
    /\ kout.sequence_num = kmsg.sequence_num
    /\ kout.timestamp = kmsg.timestamp
    /\ kout.payload = kmsg.payload

\* A message with two entries, one a string with a quote and a backslash, has
\* come back from the codec.
C13_Witness ==
  /\ kpc = "decoded"
  /\ kfault = "none"
  /\ kout = kmsg
  /\ Len(kmsg.payload) = 2
  /\ \E i \in 1..2 : kmsg.payload[i].val = [kind |-> "str", v |-> <<104, 34, 92>>]
  /\ kmsg.sequence_num = 16909060

\* The four reasons of the claim, read off the bytes handed to deserialize.
TooShort == Len(kdata) < HEADER_SIZE
ForeignVersion == Len(kdata) >= HEADER_SIZE /\ kdata[1] # VERSION
PayloadMissing ==
  /\ Len(kdata) >= HEADER_SIZE
  /\ unpack_be(SubSeq(kdata, 15, 18)) > Len(kdata) - HEADER_SIZE
ChecksumDiffers ==
  /\ Len(kdata) >= HEADER_SIZE
  /\ unpack_be(SubSeq(kdata, 15, 18)) <= Len(kdata) - HEADER_SIZE
  /\ unpack_be(SubSeq(kdata, 19, 22)) #
       _calculate_checksum(SubSeq(kdata, HEADER_SIZE + 1,
                                  HEADER_SIZE + unpack_be(SubSeq(kdata, 15, 18))))

\* C14: deserialize returns None when its input is shorter than the 24-byte
\* header, when the version byte is not 1, when the length field says more
\* payload than there are bytes after the header, and when the stored checksum
\* differs from the one computed over the payload bytes.
C14_DecodeFailure ==
  (kpc = "decoded" /\ (TooShort \/ ForeignVersion \/ PayloadMissing \/ ChecksumDiffers)) =>
    kout = None

\* A valid frame whose last payload byte had all its bits flipped was handed
\* to deserialize: size, version and length are fine, the checksums differ,
\* and None came back.
C14_Witness ==
  /\ kpc = "decoded"
  /\ kfault = "flip"
  /\ kdata[Len(kdata)] = 255 - 125
  /\ ~TooShort /\ ~ForeignVersion /\ ~PayloadMissing
  /\ ChecksumDiffers
  /\ kout = None

\* The value of a key of a payload map, NoValue if the key is absent.
NoValue == [kind |-> "none"]
payload_get(p, k) ==
  IF \E i \in 1..Len(p) : p[i].key = k
    THEN p[CHOOSE i \in 1..Len(p) : p[i].key = k].val
    ELSE NoValue

IsAck == kpc = "replied" /\ kreply.msg_type # "NACK"
IsNack == kpc = "replied" /\ kreply.msg_type = "NACK"

\* C15: create_ack(m) has m's sequence number, ack_for = m's sequence number,
\* status 'success' and the type CONNECT_ACK, CHAT_ACK, BROADCAST_ACK,
\* PRIVATE_ACK or HEARTBEAT_ACK for a CONNECT, CHAT_MSG, BROADCAST, PRIVATE_MSG
\* or HEARTBEAT, and CHAT_ACK for every other type; create_nack(m, r) has type
\* NACK, m's sequence number, nack_for = m's sequence number, reason r and
\* status 'failure'.
C15_AckConstruction ==
  /\ IsAck =>
       /\ kreply.sequence_num = kmsg.sequence_num
       /\ payload_get(kreply.payload, k_ack_for) = [kind |-> "int", v |-> kmsg.sequence_num]
       /\ payload_get(kreply.payload, k_status) = [kind |-> "str", v |-> v_success]
       /\ Len(kreply.payload) = 2
       /\ kreply.msg_type =
            (CASE kmsg.msg_type = "CONNECT" -> "CONNECT_ACK"
               [] kmsg.msg_type = "CHAT_MSG" -> "CHAT_ACK"
               [] kmsg.msg_type = "BROADCAST" -> "BROADCAST_ACK"
               [] kmsg.msg_type = "PRIVATE_MSG" -> "PRIVATE_ACK"
               [] kmsg.msg_type = "HEARTBEAT" -> "HEARTBEAT_ACK"
               [] OTHER -> "CHAT_ACK")
  /\ IsNack =>
       /\ kreply.sequence_num = kmsg.sequence_num
       /\ payload_get(kreply.payload, k_nack_for) = [kind |-> "int", v |-> kmsg.sequence_num]
       /\ payload_get(kreply.payload, k_status) = [kind |-> "str", v |-> v_failure]
       /\ payload_get(kreply.payload, k_reason) = [kind |-> "str", v |-> kreason]
       /\ kreason \in Reasons
       /\ Len(kreply.payload) = 3

\* A HEARTBEAT with a sequence number other than 0 was answered by create_ack
\* with a HEARTBEAT_ACK.
C15_Witness ==
  /\ IsAck
  /\ kmsg.msg_type = "HEARTBEAT"
  /\ kmsg.sequence_num = 16909060
  /\ kreply.msg_type = "HEARTBEAT_ACK"
  /\ kreply.sequence_num = 16909060

\* ------------------------------------------------ get_next_sequence (SpecSeq)
\* The same six lines in ReliableClient and ChatServer:
\*   with self.seq_lock: seq = self.sequence_num; self.sequence_num += 1; return seq
\* Each thread goes through them one step at a time; the += is a load and a
\* store.

\* The with statement that does not take the lock.
SeqAcquire_unlocked(t) ==
  /\ tpc[t] = "idle"
  /\ Len(handed[t]) < MaxCalls
  /\ seq_lock' = t
  /\ tpc' = [tpc EXCEPT ![t] = "read"]
  /\ UNCHANGED <<sequence_num, tseq, ttmp, handed, svars, cvars, kvars, jvars, mvars, ovars>>

\* with self.seq_lock: the thread enters when the lock is free.
SeqAcquire(t) ==
  /\ tpc[t] = "idle"
  /\ Len(handed[t]) < MaxCalls
  /\ seq_lock = NoThread
  /\ seq_lock' = t
  /\ tpc' = [tpc EXCEPT ![t] = "read"]
  /\ UNCHANGED <<sequence_num, tseq, ttmp, handed, svars, cvars, kvars, jvars, mvars, ovars>>

\* seq = self.sequence_num
SeqRead(t) ==
  /\ tpc[t] = "read"
  /\ tseq' = [tseq EXCEPT ![t] = sequence_num]
  /\ tpc' = [tpc EXCEPT ![t] = "load"]
  /\ UNCHANGED <<sequence_num, seq_lock, ttmp, handed, svars, cvars, kvars, jvars, mvars, ovars>>

\* self.sequence_num += 1: the load
SeqLoad(t) ==
  /\ tpc[t] = "load"
  /\ ttmp' = [ttmp EXCEPT ![t] = sequence_num]
  /\ tpc' = [tpc EXCEPT ![t] = "store"]
  /\ UNCHANGED <<sequence_num, seq_lock, tseq, handed, svars, cvars, kvars, jvars, mvars, ovars>>

\* self.sequence_num += 1: the store
SeqStore(t) ==
  /\ tpc[t] = "store"
  /\ sequence_num' = ttmp[t] + 1
  /\ tpc' = [tpc EXCEPT ![t] = "return"]
  /\ UNCHANGED <<seq_lock, tseq, ttmp, handed, svars, cvars, kvars, jvars, mvars, ovars>>

\* return seq: the with block is left, which releases the lock if this
\* thread holds it.
SeqReturn(t) ==
  /\ tpc[t] = "return"
  /\ handed' = [handed EXCEPT ![t] = Append(@, tseq[t])]
  /\ seq_lock' = IF seq_lock = t THEN NoThread ELSE seq_lock
  /\ tpc' = [tpc EXCEPT ![t] = "idle"]
  /\ UNCHANGED <<sequence_num, tseq, ttmp, svars, cvars, kvars, jvars, mvars, ovars>>

NextSeq ==
  \/ \E t \in Threads : SeqAcquire(t)
  \/ \E t \in Threads : SeqRead(t)
  \/ \E t \in Threads : SeqLoad(t)
  \/ \E t \in Threads : SeqStore(t)
  \/ \E t \in Threads : SeqReturn(t)

SpecSeq == Init /\ [][NextSeq]_vars

\* C12: the values get_next_sequence returns are pairwise distinct over all
\* threads, strictly increasing in each thread's order of calls, and N
\* returned calls have handed out the N values 0 .. N-1.
C12_SequenceMonotonic ==
  LET calls == {<<t, i>> \in Threads \X (1..MaxCalls) : i <= Len(handed[t])}
  IN /\ \A a \in calls : \A b \in calls :
          a # b => handed[a[1]][a[2]] # handed[b[1]][b[2]]
     /\ \A t \in Threads : \A i \in 1..Len(handed[t]) : \A j \in 1..Len(handed[t]) :
          i < j => handed[t][i] < handed[t][j]
     /\ {handed[a[1]][a[2]] : a \in calls} = 0..(Cardinality(calls) - 1)

C12_Witness ==
  /\ \A t \in Threads : Len(handed[t]) = MaxCalls
  /\ \E t \in Threads : handed[t][2] > handed[t][1] + 1

\* ------------------------------------------------- properties of the client
\* A call of _send_reliable has returned to its operation.
Returned ==
  /\ cpc = "idle"
  /\ cop \in {"connect", "chat", "broadcast", "private"}
  /\ cmsg # NoMsg

\* C1: when the first K <= maxRetries transmissions of a message are lost,
\* the next one is delivered and the peer's ACK for it is handled (no reply is
\* lost, no timeout fires early, no write fails), sendReliable reports success
\* and the message was transmitted K + 1 times.
C1_SuccessAfterDrops ==
  (/\ Returned
   /\ dropCount <= MAX_RETRIES
   /\ ackSeen
   /\ ~replyLost
   /\ late = 0
   /\ ~sendErr)
  => (cret = TRUE /\ txCount = dropCount + 1)

\* A call of sendReliable never transmits more than MAX_RETRIES + 1 times, and
\* one that has returned without an ACK or a NACK for the message handled has
\* transmitted exactly MAX_RETRIES + 1 times, reports failure and leaves no
\* pending entry for the message.
C2_Bounded ==
  /\ txCount <= MAX_RETRIES + 1
  /\ (Returned /\ ~ackSeen /\ ~nackSeen /\ ~sendErr)
       => (/\ txCount = MAX_RETRIES + 1
           /\ cret = FALSE
           /\ cmsg.seq \notin pending_acks)

\* C2: the bound and the result of an exhausted call hold in every state, and
\* every call of sendReliable returns.
C2_Exhaustion == []C2_Bounded /\ (InCall ~> ~InCall)

C2_Witness ==
  /\ Returned
  /\ ~ackSeen /\ ~nackSeen /\ ~sendErr
  /\ dropCount = MAX_RETRIES + 1
  /\ cret = FALSE

\* C3: when a NACK naming the pending entry of the message is handled while
\* sendReliable waits, the entry is removed, sendReliable reports failure and
\* the message is not transmitted again.
C3_NackFails ==
  (Returned /\ nackHit)
  => (/\ cmsg.seq \notin pending_acks
      /\ cret = FALSE
      /\ txCount = txAtNack)

\* C4: connect(u) reports success only if the server has bound u to the
\* client's session.
C4_ConnectMeansBound ==
  (cpc = "idle" /\ cop = "connect" /\ cret = TRUE)
  => (/\ username_to_client[cli_username] = CliSess
      /\ username[CliSess] = cli_username)

\* C10: when sendReliable has reported success for a message, the server has
\* taken a frame carrying that message's sequence number from the client's
\* connection and processed it.
C10_AtLeastOnce ==
  (Returned /\ cret = TRUE)
  => \E f \in processed : f = cmsg /\ f.seq = cmsg.seq

C10_Witness ==
  /\ Returned
  /\ cret = TRUE
  /\ dropCount > 0
  /\ cmsg \in processed

\* C18: when a reliable operation has returned failure because no ACK (and no
\* NACK) for its message was handled within the retry budget, the client's
\* socket is still open.
C18_ExhaustionKeepsTransport ==
  (Returned /\ ~cret /\ ~ackSeen /\ ~nackSeen /\ ~sendErr) => cli_sock = "open"

\* The receive loop has ended (the transport closed) while _send_reliable
\* waits for the ACK of its message.
WaitCutOff == cpc = "wait" /\ cmsg.seq \in pending_acks /\ rpc = "exit"

\* C29: once the receive loop has ended while sendReliable waits for an ACK,
\* the only step the caller takes is the return of failure: it lets no timeout
\* pass and transmits nothing more.
C29_CloseFailsWait ==
  [][WaitCutOff =>
       /\ retries' = retries
       /\ txCount' = txCount
       /\ cpc' = "wait" \/ (cpc' = "idle" /\ cret' = FALSE)]_vars

\* C30: in each attempt of sendReliable the pending entry is there once the
\* frame has been handed to the transport: while the call has transmitted
\* in its current attempt and no ACK or NACK for the message was handled, the
\* message's sequence number is in pending_acks.
C30_PendingPrecedesTransmission ==
  (InCall /\ txCount = retries + 1 /\ ~ackSeen /\ ~nackSeen)
  => cmsg.seq \in pending_acks

\* C26: stop-and-wait: the client's pending_acks holds at most one entry in
\* every reachable state, also when several threads call its send operations.
C26_StopAndWait == Cardinality(pending_acks) <= 1

\* C27: frame writes on the client's transport never interleave: what the
\* caller threads and the receive thread put on the socket is a sequence of
\* whole frames.
C27_WritesSerialized == \A i \in 1..Len(wire) : Unmixed(i)

\* The handler thread of session c is in a socket call: conn.recv, sendall
\* or close.
InSocketCall(c) == hpc[c] \in {"recv", "nack", "conn_ack", "fan", "priv_fwd", "close"}

\* C28: no handler thread is in a socket call while it holds the registry
\* lock.
C28_NoLockAcrossIO == \A c \in Sessions : InSocketCall(c) => clients_lock # c

\* The receive thread takes a frame of an ACK type.
AckStep == inbox # <<>> /\ inbox' = Tail(inbox) /\ Head(inbox).type \in AckTypes

\* C31: handling an ACK with ack_for = s removes the entry for s from
\* pending_acks if there is one and leaves every other entry; if there is
\* none the table is unchanged; in both cases the client's connection state
\* is unchanged and nothing is transmitted.
C31_AckResolution ==
  [][AckStep =>
       LET s == Head(inbox).ref IN
         /\ s \in pending_acks => pending_acks' = pending_acks \ {s}
         /\ s \notin pending_acks => pending_acks' = pending_acks
         /\ UNCHANGED <<cli_connected, cli_running, cli_sock, cli_sequence_num, wire>>]_vars

\* An ACK removed its entry and left the entry of another caller, which still
\* waits.
C31_Witness ==
  /\ ackCase = "among"
  /\ \E t \in Callers : callpc[t] = "wait" /\ callmsg[t].seq \in pending_acks
  /\ \E t \in Callers : callret[t] = "True"

\* The client's call sends a CHAT_MSG, every transmission that was not dropped
\* has been taken and handled to its end by the server, and the connection
\* stands.
ChatSettled ==
  /\ cmsg.type = "CHAT_MSG"
  /\ c2s = <<>>
  /\ hpc[CliSess] = "recv"
  /\ sockOpen[CliSess] /\ ~peerClosed[CliSess]
  /\ Registered(1)

\* The server's handler takes a CHAT_MSG of the client from an open connection.
ChatTaken ==
  /\ c2s # <<>> /\ c2s' = Tail(c2s)
  /\ Head(c2s).type = "CHAT_MSG"
  /\ sockOpen[CliSess] /\ ~peerClosed[CliSess]

\* C32: the server does not deduplicate: every transmission of a CHAT_MSG that
\* reaches it is answered with one CHAT_ACK to the sender and relayed once to
\* every eligible recipient, whether or not the same sequence number was
\* processed before.
C32_NoDeduplication ==
  /\ [](ChatSettled => Count(sent[1], cmsg) = txCount - dropCount)
  /\ [][ChatTaken =>
          /\ sent' = [sent EXCEPT ![CliSess] = Append(@, create_ack(Head(c2s)))]
          /\ hpc'[CliSess] = "snap_msg"]_vars

\* The ACK of a CHAT_MSG was lost, the message was transmitted again and the
\* recipient was sent it twice.
C32_Witness ==
  /\ ChatSettled
  /\ replyLost
  /\ dropCount = 0
  /\ txCount = 2
  /\ Count(sent[1], cmsg) = 2

\* C33: within one call of sendReliable the message is never rebuilt, every
\* transmission hands the transport that same message (type, sequence number
\* and payload as at the first transmission), and no transmission takes a
\* sequence number.
C33_IdenticalRetransmissions ==
  /\ [][(InCall /\ InCall') => cmsg' = cmsg]_vars
  /\ [][(InCall /\ txCount' = txCount + 1) =>
          /\ c2s' = c2s \/ c2s' = Append(c2s, cmsg)
          /\ cli_sequence_num' = cli_sequence_num
          /\ cmsg.seq < cli_sequence_num]_vars

\* The message was transmitted twice: the server has processed the first
\* copy and the second, equal to it, is on the wire.
C33_Witness ==
  /\ InCall
  /\ txCount = 2
  /\ dropCount = 0
  /\ cmsg \in processed
  /\ c2s = <<cmsg>>
  /\ cli_sequence_num = cmsg.seq + 1

\* C34: whenever sendReliable has returned, pending_acks holds no entry for
\* the sequence number of its message.
C34_NoEntrySurvivesReturn == Returned => cmsg.seq \notin pending_acks

\* C35: a session is bound to at most one username: every key of the
\* username index that refers to a session is that session's username, so no
\* session appears under two keys.
C35_OneUsernamePerSession ==
  \A u \in Names :
    username_to_client[u] # NoSession => username[username_to_client[u]] = u

\* ------------------------------------ the locks of both programs (SpecLockPaths)
\* A code path is the sequence of lock and socket operations a thread performs
\* from the entry of a handler or operation to its return: "acq" enters a
\* "with <lock>:" block and waits while another thread is inside, "rel" leaves
\* it, "io" is a call on a socket (send, sendall, close) or a sleep.
acq(l) == [op |-> "acq", lock |-> l]
rel(l) == [op |-> "rel", lock |-> l]
io == [op |-> "io", lock |-> <<"none", 0>>]

\* "with l:" around the operations of body.
with(l, body) == <<acq(l)>> \o body \o <<rel(l)>>

\* get_next_sequence of the server and of the client.
get_next_sequence_path == with(SeqLock, <<>>)
cli_get_next_sequence_path == with(CliSeqLock, <<>>)

\* _broadcast_message: the snapshot under the registry lock, the sends after it.
_broadcast_message_path == with(ClientsLock, <<>>) \o <<io>>

\* A variant of _disconnect_client that draws the leave notice's sequence number
\* inside the registry lock's block.
_disconnect_client_nested ==
  with(ClientsLock, get_next_sequence_path) \o _broadcast_message_path \o <<io>>

\* _disconnect_client: the removal under the registry lock; after the block, the
\* leave notice (get_next_sequence, _broadcast_message) and client.close().
_disconnect_client_path ==
  with(ClientsLock, <<>>) \o get_next_sequence_path \o _broadcast_message_path \o <<io>>

\* _handle_connect: a taken name is refused inside the block; a free name is
\* registered inside it and acknowledged and announced after it.
_handle_connect_paths ==
  { with(ClientsLock, <<io>>),
    with(ClientsLock, <<>>) \o <<io>> \o get_next_sequence_path \o _broadcast_message_path }

\* _handle_chat_message and _handle_broadcast: the ACK, then _broadcast_message.
_handle_chat_message_path == <<io>> \o _broadcast_message_path

\* _handle_private_message: the ACK, the lookup under the registry lock, then
\* the forward, or the ERROR with a fresh sequence number.
_handle_private_message_paths ==
  { <<io>> \o with(ClientsLock, <<>>) \o <<io>>,
    <<io>> \o with(ClientsLock, <<>>) \o get_next_sequence_path \o <<io>> }

\* The server's _handle_ack of session c.
_handle_ack_path(c) == with(SessionLock(c), <<>>)

\* The accept loop's registration, one scan of _heartbeat_loop (sleep, snapshot),
\* stop() (every close inside the block) and get_stats.
accept_path == with(ClientsLock, <<>>)
_heartbeat_loop_path == <<io>> \o with(ClientsLock, <<>>)
stop_path == with(ClientsLock, <<io>>)
get_stats_path == with(ClientsLock, <<>>)

\* A send operation of the client: the sequence number, then _send_reliable: the
\* transmission, the entry recorded, the entry polled, and the entry deleted
\* after the last attempt.
send_paths ==
  { cli_get_next_sequence_path \o <<io>> \o with(AckLock, <<>>) \o with(AckLock, <<>>),
    cli_get_next_sequence_path \o <<io>> \o with(AckLock, <<>>) \o with(AckLock, <<>>)
      \o with(AckLock, <<>>) }

\* The client's receive thread: _handle_ack or _handle_nack, or the ACK it
\* sends for a chat frame.
receive_paths == { with(AckLock, <<>>), <<io>> }

\* The client's disconnect(): the sequence number, then the DISCONNECT frame.
disconnect_path == cli_get_next_sequence_path \o <<io>>

Paths ==
  _handle_connect_paths \cup _handle_private_message_paths \cup send_paths
    \cup receive_paths \cup {_handle_ack_path(c) : c \in Sessions}
    \cup { _disconnect_client_path, _handle_chat_message_path, accept_path,
           _heartbeat_loop_path, stop_path, get_stats_path, disconnect_path }

\* The locks thread t is inside.
held(t) == {l \in Locks : holder[l] = t}

pathsUnchanged == <<svars, cvars, gvars, kvars, jvars, mvars, pvars, lvars>>

\* A thread enters a handler or an operation.
PathStart(t) ==
  /\ todo[t] = <<>>
  /\ nruns[t] < MaxRuns
  /\ \E p \in Paths : todo' = [todo EXCEPT ![t] = p]
  /\ nruns' = [nruns EXCEPT ![t] = @ + 1]
  /\ UNCHANGED <<holder, pathsUnchanged>>

\* Lock.acquire: the thread enters the block once nobody is inside.
PathAcquire(t) ==
  /\ todo[t] # <<>>
  /\ Head(todo[t]).op = "acq"
  /\ holder[Head(todo[t]).lock] = NoThread
  /\ holder' = [holder EXCEPT ![Head(todo[t]).lock] = t]
  /\ todo' = [todo EXCEPT ![t] = Tail(@)]
  /\ UNCHANGED <<nruns, pathsUnchanged>>

\* Lock.release at the end of the block.
PathRelease(t) ==
  /\ todo[t] # <<>>
  /\ Head(todo[t]).op = "rel"
  /\ holder' = [holder EXCEPT ![Head(todo[t]).lock] = NoThread]
  /\ todo' = [todo EXCEPT ![t] = Tail(@)]
  /\ UNCHANGED <<nruns, pathsUnchanged>>

\* A socket call or a sleep: no lock changes hands.
PathCall(t) ==
  /\ todo[t] # <<>>
  /\ Head(todo[t]).op = "io"
  /\ todo' = [todo EXCEPT ![t] = Tail(@)]
  /\ UNCHANGED <<holder, nruns, pathsUnchanged>>

NextLockPaths ==
  \E t \in LockThreads : PathStart(t) \/ PathAcquire(t) \/ PathRelease(t) \/ PathCall(t)

SpecLockPaths == Init /\ [][NextLockPaths]_vars

\* Thread t is not waiting for a lock another thread (or itself) is inside.
CanStep(t) ==
  todo[t] # <<>> /\ (Head(todo[t]).op = "acq" => holder[Head(todo[t]).lock] = NoThread)

\* C36: no thread is ever inside the blocks of two locks at once, and whenever
\* some thread is in the middle of a code path, some thread can take its next
\* step: no set of threads waits for each other's locks.
C36_NoNestedLocks ==
  /\ \A t \in LockThreads : Cardinality(held(t)) <= 1
  /\ (\E t \in LockThreads : todo[t] # <<>>) => (\E t \in LockThreads : CanStep(t))

\* One thread is inside the registry lock's block (about to send the NACK or to
\* close a socket there) while another waits to enter it.
C36_Witness ==
  \E t, u \in LockThreads :
    /\ t # u
    /\ held(t) = {ClientsLock}
    /\ todo[t] # <<>> /\ Head(todo[t]).op = "io"
    /\ todo[u] # <<>> /\ Head(todo[u]) = acq(ClientsLock)
    /\ ~CanStep(u)

\* C37: while a session's handler stands between the binding of its username
\* and the send of its CONNECT_ACK, nothing has been written to the session's
\* transport since the handler took the CONNECT: the ACK is the first frame
\* after the binding.
C37_ConnectAckFirst ==
  \A c \in Sessions : hpc[c] = "conn_ack" => Len(sent[c]) = mark[c]

\* C38: everything the server has written to a session that has no username is
\* an ACK, a NACK or an ERROR made for a frame of that session: no CHAT_MSG, no
\* BROADCAST (join and leave notices included) and no PRIVATE_MSG.
C38_UnregisteredGetNoRelay ==
  \A c \in Sessions :
    username[c] = NoName =>
      \A i \in 1..Len(sent[c]) :
        /\ sent[c][i].type \in AckTypes \cup {"NACK", "ERROR"}
        /\ sent[c][i].src = c

\* A session without a username has sent a PRIVATE_MSG that was forwarded to a
\* registered session; after that the registered session's CHAT_MSG was
\* acknowledged and relayed, and the unnamed session, still connected, got
\* nothing but its PRIVATE_ACK.
C38_Witness ==
  \E c, d \in Sessions :
    /\ c # d
    /\ username[c] = NoName /\ c \in clients /\ connected[c] /\ sockOpen[c]
    /\ Registered(d)
    /\ hpc[d] = "recv" /\ hmsg[d].type = "CHAT_MSG"
    /\ Len(sent[d]) = 3
    /\ sent[d][2].type = "PRIVATE_MSG" /\ sent[d][2].src = c
    /\ sent[d][3] = create_ack(hmsg[d])
    /\ Len(sent[c]) = 1 /\ sent[c][1].type = "PRIVATE_ACK"

\* C39: a send operation called while the connected flag is false returns
\* False at once: no frame is handed to the transport, no entry is added to
\* pending_acks, the sequence counter stays where it was, and _send_reliable
\* is not entered.
SendCalled == cpc = "idle" /\ nops' = nops + 1

C39_NotConnectedSendFails ==
  [][(SendCalled /\ ~cli_connected) =>
       /\ cret' = FALSE
       /\ cpc' = "idle"
       /\ c2s' = c2s
       /\ pending_acks' = pending_acks
       /\ cli_sequence_num' = cli_sequence_num
       /\ txCount' = txCount
       /\ UNCHANGED <<cli_connected, cli_running, cli_sock>>]_vars

\* A client that was connected and has lost or closed its connection called
\* send_private_message: the call returned False, the counter is where the
\* CONNECT left it and nothing is pending or on the wire.
C39_Witness ==
  /\ nops = 1 /\ cop = "private" /\ cmsg = NoMsg
  /\ cpc = "idle" /\ cret = FALSE
  /\ ~cli_connected /\ cli_sock = "closed"
  /\ cli_sequence_num = 1
  /\ pending_acks = {} /\ c2s = <<>>

====
